---- MODULE Spec2Model ----
(***************************************************************************)
(* A model of mcp-command-server: the process executor                     *)
(* (terminal/terminal_interface.py), the execute_command pipeline          *)
(* (server.py) and the security components it calls.                       *)
(*                                                                         *)
(* Six specifications share the module, one per subsystem; each leaves     *)
(* the variables of the others unchanged:                                  *)
(*   SpecExecute    TerminalInterface.execute                              *)
(*   SpecStreaming  TerminalInterface.execute_streaming                    *)
(*   SpecServer     CommandServer execute_command                          *)
(*   SpecSecurity   CommandSanitizer, CommandValidator and                 *)
(*                  UserConfirmationHandler called on their own            *)
(*   SpecAudit      AuditLogger and the file it writes                     *)
(*   SpecHistory    CommandLogger and the history log                      *)
(***************************************************************************)
EXTENDS Integers, Sequences, FiniteSets, TLC

(***************************************************************************)
(* Optional[T]: None is the empty tuple, a value v is <<v>>.               *)
(***************************************************************************)
None == <<>>

Some(v) == <<v>>

\* Python truthiness of an Optional[str] / Optional[bytes]: None and the
\* empty string are both false.
Truthy(opt) == opt # None /\ Len(opt[1]) > 0

(***************************************************************************)
(* Bounds of the model.                                                    *)
(***************************************************************************)
\* number of bytes the stdin pipe and transport buffer take without a reader
PipeCapacity == 1

\* number of lines a finite child writes to stdout at most
MaxLines == 2

\* number of execute_command requests in flight
NumRequests == 2

\* number of lines the audit log of an AuditLogger grows to
MaxAuditLines == 2

\* number of arguments of a command record
MaxArgs == 3

\* number of lines the history log grows to
MaxHistory == 3

VARIABLES
    ex_pc,        \* position of the execute coroutine
    ex_input,     \* input_data: Optional[str]
    ex_timeout,   \* timeout: Optional[float]
    ex_cmd,       \* what the launched command does (the environment)
    ex_proc,      \* the child process and what asyncio knows of it
    ex_fired,     \* the deadline of wait_for fired
    ex_outcome    \* how execute ended

execVars == <<ex_pc, ex_input, ex_timeout, ex_cmd, ex_proc, ex_fired, ex_outcome>>

VARIABLES
    st_pc,        \* position of the execute_streaming generator
    st_timeout,   \* timeout: Optional[float]
    st_cmd,       \* what the launched command does (the environment)
    st_proc,      \* the child process and what asyncio knows of it
    st_stdout,    \* the stdout pipe of the child
    st_fired,     \* the deadline of asyncio.timeout fired
    st_outcome    \* how the generator ended

streamVars == <<st_pc, st_timeout, st_cmd, st_proc, st_stdout, st_fired, st_outcome>>

VARIABLES
    srv_pc,       \* position of each execute_command request
    srv_req,      \* its local variables command, args, path
    srv_trace,    \* the stages of the pipeline it has run
    srv_child,    \* the subprocess of _execute_command_async
    srv_prompts,  \* the calls of the approval callback and its answers
    srv_result,   \* what _execute_command_async gave the request
    srv_outcome,  \* how the request ended
    audit         \* the audit log: the events appended, in order

serverVars ==
    <<srv_pc, srv_req, srv_trace, srv_child, srv_prompts, srv_result, srv_outcome, audit>>

VARIABLES
    fs_links,     \* the symbolic links of the file system: name -> target
    val_policy,   \* CommandValidator.allowed_commands, None before __init__
    sec_call,     \* the last call of a security component and its outcome
    sec_again     \* the outcome of the repetition of that call, if any

securityVars == <<fs_links, val_policy, sec_call, sec_again>>

VARIABLES
    al_fs,        \* the destination of the audit log on the file system
    al_logger,    \* an AuditLogger exists
    al_call       \* the last call on AuditLogger and its outcome

loggerVars == <<al_fs, al_logger, al_call>>

VARIABLES
    hist_exists,  \* the history log file exists
    hist_log,     \* its lines, in file order
    hist_logged,  \* the records log_command was called with, one per line it wrote
    hist_call,    \* the call on CommandLogger whose outcome the caller holds
    hist_again    \* the outcome of masking the outcome of that call

historyVars == <<hist_exists, hist_log, hist_logged, hist_call, hist_again>>

VARIABLES
    wr_pc,        \* per write call: where it is between open and close
    wr_log,       \* per write call: the log it appends to
    wr_buffer,    \* per write call: what its file object holds unwritten
    wr_file       \* per log: the pieces written to the file, in file order

writerVars == <<wr_pc, wr_log, wr_buffer, wr_file>>

vars == <<execVars, streamVars, serverVars, securityVars, loggerVars, historyVars,
          writerVars>>

(***************************************************************************)
(* The child process.                                                      *)
(*   state: "none" not launched, "running", "exited" (terminated, exit     *)
(*          status not yet collected by the event loop), "reaped"          *)
(*          (process.returncode is set)                                    *)
(*   stdin: "inherit" (stdin=None), "open" or "closed" (stdin=PIPE)        *)
(***************************************************************************)
NoProcess ==
    [state |-> "none", exitcode |-> None, returncode |-> None,
     stdin |-> "inherit", written |-> FALSE, sigterm |-> FALSE, sigkill |-> FALSE]

\* The behaviours of a command that the executor can tell apart.
Commands ==
    [exits : {"never", "zero", "nonzero"},   \* exits on its own, and how
     readsStdin : BOOLEAN,                    \* consumes its standard input
     honoursTerm : BOOLEAN,                   \* exits on the graceful signal
     utf8 : BOOLEAN]                          \* its output decodes as UTF-8

InputData == {None, Some(""), Some("x"), Some("xx")}

Timeouts == {None, Some(1)}

SIGTERM == 15

SIGKILL == 9

\* a send_signal that does not poll the child first
SendSignal_Unpolled(p, sig) ==
    IF p.state \notin {"running", "exited"} THEN p
    ELSE IF sig = SIGTERM THEN [p EXCEPT !.sigterm = TRUE]
    ELSE [p EXCEPT !.sigkill = TRUE]

\* Popen.send_signal: a process known to have died is not signalled.
SendSignal(p, sig) ==
    IF p.state # "running" THEN p
    ELSE IF sig = SIGTERM THEN [p EXCEPT !.sigterm = TRUE]
    ELSE [p EXCEPT !.sigkill = TRUE]

\* The errors terminate() and kill() can raise: ProcessLookupError once the
\* transport of a reaped child is finished (_check_proc), PermissionError
\* from os.kill for a running child of another user; a child that died and
\* is not yet reaped is skipped silently.
SignalFails(p) ==
    IF p.state = "reaped" THEN {"ProcessLookupError"}
    ELSE IF p.state = "running" THEN {"PermissionError"}
    ELSE {}

Ended(kind, rc) == [kind |-> kind, returncode |-> rc]

NotEnded == Ended("none", None)

(***************************************************************************)
(* The environment of a child: it exits, and the event loop reaps it.      *)
(***************************************************************************)
\* exit statuses a running child can end with in its current situation
ExitCodes(p, cmd) ==
    (IF cmd.exits = "never" \/ (cmd.readsStdin /\ p.stdin = "open") THEN {}
     ELSE IF cmd.exits = "zero" THEN {0} ELSE {1})
    \cup (IF p.sigkill THEN {-SIGKILL} ELSE {})
    \cup (IF p.sigterm /\ cmd.honoursTerm THEN {-SIGTERM} ELSE {})

ChildExits(p, cmd, code) == [p EXCEPT !.state = "exited", !.exitcode = Some(code)]

\* the child watcher collects the exit status: process.returncode is set
ChildReaped(p) == [p EXCEPT !.state = "reaped", !.returncode = p.exitcode]

(***************************************************************************)
(* TerminalInterface.execute                                               *)
(***************************************************************************)
\* the call, up to the first suspension in create_subprocess_shell
execute(input_data, timeout, cmd) ==
    /\ ex_pc = "idle"
    /\ ex_pc' = "create"
    /\ ex_input' = input_data
    /\ ex_timeout' = timeout
    /\ ex_cmd' = cmd
    /\ UNCHANGED <<ex_proc, ex_fired, ex_outcome>>
    /\ UNCHANGED <<streamVars, serverVars, securityVars, loggerVars, historyVars, writerVars>>

\* stdin=asyncio.subprocess.PIPE if input_data else None
StdinOfChild(input_data) == IF Truthy(input_data) THEN "open" ELSE "inherit"

\* create_subprocess_shell returns; "if input_data:" writes and reaches drain
ExCreated ==
    /\ ex_pc = "create"
    /\ ex_proc' = [NoProcess EXCEPT !.state = "running",
                                    !.stdin = StdinOfChild(ex_input),
                                    !.written = Truthy(ex_input)]
    /\ ex_pc' = IF Truthy(ex_input) THEN "drain" ELSE "communicate"
    /\ UNCHANGED <<ex_input, ex_timeout, ex_cmd, ex_fired, ex_outcome>>
    /\ UNCHANGED <<streamVars, serverVars, securityVars, loggerVars, historyVars, writerVars>>

\* create_subprocess_shell raises (no such working directory, ...)
ExCreateFails ==
    /\ ex_pc = "create"
    /\ ex_pc' = "done"
    /\ ex_outcome' = Ended("OSError", None)
    /\ UNCHANGED <<ex_input, ex_timeout, ex_cmd, ex_proc, ex_fired>>
    /\ UNCHANGED <<streamVars, serverVars, securityVars, loggerVars, historyVars, writerVars>>

\* "finally: process.stdin.close()"
CloseStdin(p) == [p EXCEPT !.stdin = "closed"]

\* drain returns once the data is taken by the pipe or by the child
ExDrained ==
    /\ ex_pc = "drain"
    /\ \/ Len(ex_input[1]) <= PipeCapacity
       \/ ex_cmd.readsStdin /\ ex_proc.state = "running"
    /\ ex_proc' = CloseStdin(ex_proc)
    /\ ex_pc' = "communicate"
    /\ UNCHANGED <<ex_input, ex_timeout, ex_cmd, ex_fired, ex_outcome>>
    /\ UNCHANGED <<streamVars, serverVars, securityVars, loggerVars, historyVars, writerVars>>

\* drain raises: the reading end is gone (BrokenPipeError, ConnectionResetError)
ExDrainFails ==
    /\ ex_pc = "drain"
    /\ ex_proc.state # "running"
    /\ ex_proc' = CloseStdin(ex_proc)
    /\ ex_pc' = "done"
    /\ ex_outcome' = Ended("OSError", None)
    /\ UNCHANGED <<ex_input, ex_timeout, ex_cmd, ex_fired>>
    /\ UNCHANGED <<streamVars, serverVars, securityVars, loggerVars, historyVars, writerVars>>

\* what execute does with a completed communicate()
CompletedOutcome(p, cmd) ==
    IF ~cmd.utf8 THEN Ended("UnicodeDecodeError", None)
    ELSE IF p.returncode # Some(0) THEN Ended("TerminalError", p.returncode)
    ELSE Ended("CommandResult", p.returncode)

\* wait_for(process.communicate()) returns before the deadline
ExCommunicated ==
    /\ ex_pc = "communicate"
    /\ ex_proc.state = "reaped"
    /\ ex_pc' = "done"
    /\ ex_outcome' = CompletedOutcome(ex_proc, ex_cmd)
    /\ UNCHANGED <<ex_input, ex_timeout, ex_cmd, ex_proc, ex_fired>>
    /\ UNCHANGED <<streamVars, serverVars, securityVars, loggerVars, historyVars, writerVars>>

\* an executor that hands out the result of a child that exited in the grace
\* interval
TimedOutOutcome_ResultAfterGrace(p) ==
    IF p.returncode = Some(0) THEN Ended("CommandResult", p.returncode)
    ELSE Ended("CommandTimeoutError", None)

\* "raise CommandTimeoutError(...)" after the termination attempt
TimedOutOutcome(p) == Ended("CommandTimeoutError", None)

\* asyncio.TimeoutError: process.terminate(), then the grace sleep; when
\* terminate raises, "except Exception" logs and the timeout is reported
ExDeadline ==
    /\ ex_pc = "communicate"
    /\ ex_timeout # None
    /\ ex_proc.state # "reaped"
    /\ ex_fired' = TRUE
    /\ \/ /\ ex_proc' = SendSignal(ex_proc, SIGTERM)
          /\ ex_pc' = "grace"
          /\ UNCHANGED ex_outcome
       \/ /\ SignalFails(ex_proc) # {}
          /\ ex_pc' = "done"
          /\ ex_outcome' = TimedOutOutcome(ex_proc)
          /\ UNCHANGED ex_proc
    /\ UNCHANGED <<ex_input, ex_timeout, ex_cmd>>
    /\ UNCHANGED <<streamVars, serverVars, securityVars, loggerVars, historyVars, writerVars>>

\* "if process.returncode is None: process.kill()"
KillIfRunning(p) == IF p.returncode = None THEN SendSignal(p, SIGKILL) ELSE p

\* the grace sleep is over: kill if not reaped (kill may raise, which is
\* logged), then raise CommandTimeoutError
ExGraceOver ==
    /\ ex_pc = "grace"
    /\ \/ ex_proc' = KillIfRunning(ex_proc)
       \/ ex_proc.returncode = None /\ SignalFails(ex_proc) # {} /\ ex_proc' = ex_proc
    /\ ex_pc' = "done"
    /\ ex_outcome' = TimedOutOutcome(ex_proc)
    /\ UNCHANGED <<ex_input, ex_timeout, ex_cmd, ex_fired>>
    /\ UNCHANGED <<streamVars, serverVars, securityVars, loggerVars, historyVars, writerVars>>

ExSuspended == {"create", "drain", "communicate", "grace"}

\* "except asyncio.CancelledError: logger.warning(...); raise"
ExCancelled ==
    /\ ex_pc \in ExSuspended
    /\ ex_proc' = IF ex_pc = "drain" THEN CloseStdin(ex_proc) ELSE ex_proc
    /\ ex_pc' = "done"
    /\ ex_outcome' = Ended("CancelledError", None)
    /\ UNCHANGED <<ex_input, ex_timeout, ex_cmd, ex_fired>>
    /\ UNCHANGED <<streamVars, serverVars, securityVars, loggerVars, historyVars, writerVars>>

ExChildExits ==
    /\ ex_proc.state = "running"
    /\ \E code \in ExitCodes(ex_proc, ex_cmd) :
          ex_proc' = ChildExits(ex_proc, ex_cmd, code)
    /\ UNCHANGED <<ex_pc, ex_input, ex_timeout, ex_cmd, ex_fired, ex_outcome>>
    /\ UNCHANGED <<streamVars, serverVars, securityVars, loggerVars, historyVars, writerVars>>

ExChildReaped ==
    /\ ex_proc.state = "exited"
    /\ ex_proc' = ChildReaped(ex_proc)
    /\ UNCHANGED <<ex_pc, ex_input, ex_timeout, ex_cmd, ex_fired, ex_outcome>>
    /\ UNCHANGED <<streamVars, serverVars, securityVars, loggerVars, historyVars, writerVars>>

ExInit ==
    /\ ex_pc = "idle"
    /\ ex_input = None
    /\ ex_timeout = None
    /\ ex_cmd = [exits |-> "never", readsStdin |-> FALSE, honoursTerm |-> FALSE, utf8 |-> TRUE]
    /\ ex_proc = NoProcess
    /\ ex_fired = FALSE
    /\ ex_outcome = NotEnded

ExNext ==
    \/ \E input_data \in InputData, timeout \in Timeouts, cmd \in Commands :
          execute(input_data, timeout, cmd)
    \/ ExCreated
    \/ ExCreateFails
    \/ ExDrained
    \/ ExDrainFails
    \/ ExCommunicated
    \/ ExDeadline
    \/ ExGraceOver
    \/ ExCancelled
    \/ ExChildExits
    \/ ExChildReaped

(***************************************************************************)
(* TerminalInterface.execute_streaming                                     *)
(***************************************************************************)
\* a child that never stops writing lines
Forever == -1

StreamCommands ==
    [exits : {"never", "zero", "nonzero"},
     honoursTerm : BOOLEAN,
     lines : (0..MaxLines) \cup {Forever},   \* lines it writes to stdout
     closesStdout : BOOLEAN,                  \* closes stdout when it has written
     fillsStderr : BOOLEAN,                   \* blocks writing to a full stderr pipe
     overLimit : BOOLEAN,                     \* its lines exceed the limit of the reader
     utf8 : BOOLEAN]

\* towrite: lines the child has still to write; buffered: lines written and
\* not yet read by readline; open: the child holds the write end
NoPipe == [towrite |-> 0, buffered |-> 0, open |-> FALSE]

\* the call and the first __anext__, up to create_subprocess_shell
execute_streaming(timeout, cmd) ==
    /\ st_pc = "idle"
    /\ st_pc' = "create"
    /\ st_timeout' = timeout
    /\ st_cmd' = cmd
    /\ UNCHANGED <<st_proc, st_stdout, st_fired, st_outcome>>
    /\ UNCHANGED <<execVars, serverVars, securityVars, loggerVars, historyVars, writerVars>>

\* the child is launched and the generator enters "async with asyncio.timeout"
StCreated ==
    /\ st_pc = "create"
    /\ st_proc' = [NoProcess EXCEPT !.state = "running"]
    /\ st_stdout' = [towrite |-> st_cmd.lines, buffered |-> 0, open |-> TRUE]
    /\ st_pc' = "readline"
    /\ UNCHANGED <<st_timeout, st_cmd, st_fired, st_outcome>>
    /\ UNCHANGED <<execVars, serverVars, securityVars, loggerVars, historyVars, writerVars>>

StCreateFails ==
    /\ st_pc = "create"
    /\ st_pc' = "done"
    /\ st_outcome' = Ended("OSError", None)
    /\ UNCHANGED <<st_timeout, st_cmd, st_proc, st_stdout, st_fired>>
    /\ UNCHANGED <<execVars, serverVars, securityVars, loggerVars, historyVars, writerVars>>

\* "except Exception as e: process.kill(); ...; raise": the error e leaves the
\* generator, unless kill itself raises and takes its place
KillAndReraise(p, e) ==
    {[proc |-> SendSignal(p, SIGKILL), outcome |-> e]}
    \cup {[proc |-> p, outcome |-> Ended(k, None)] : k \in SignalFails(p)}

\* what "line = await stream.readline()" and "yield line.decode()" give for
\* a line of the child: readline raises ValueError for a line longer than the
\* limit of the StreamReader (64 KiB), decode raises for bytes that are no
\* UTF-8
LineRead(cmd) ==
    IF cmd.overLimit THEN Ended("ValueError", None)
    ELSE IF ~cmd.utf8 THEN Ended("UnicodeDecodeError", None)
    ELSE Ended("yield", None)

\* readline returns a line, which is decoded and yielded to the consumer, or
\* readline or decode raise inside the try block
StReadLine ==
    /\ st_pc = "readline"
    /\ st_stdout.buffered > 0
    /\ st_stdout' = [st_stdout EXCEPT !.buffered = @ - 1]
    /\ IF LineRead(st_cmd).kind = "yield"
       THEN /\ st_pc' = "yield"
            /\ UNCHANGED <<st_proc, st_outcome>>
       ELSE /\ st_pc' = "done"
            /\ \E r \in KillAndReraise(st_proc, LineRead(st_cmd)) :
                  st_proc' = r.proc /\ st_outcome' = r.outcome
    /\ UNCHANGED <<st_timeout, st_cmd, st_fired>>
    /\ UNCHANGED <<execVars, serverVars, securityVars, loggerVars, historyVars, writerVars>>

\* the consumer asks for the next line
StConsumerNext ==
    /\ st_pc = "yield"
    /\ st_pc' = "readline"
    /\ UNCHANGED <<st_timeout, st_cmd, st_proc, st_stdout, st_fired, st_outcome>>
    /\ UNCHANGED <<execVars, serverVars, securityVars, loggerVars, historyVars, writerVars>>

\* the consumer abandons the generator: aclose() throws GeneratorExit at the
\* yield, which no except clause of the generator catches
StConsumerCloses ==
    /\ st_pc = "yield"
    /\ st_pc' = "done"
    /\ st_outcome' = Ended("GeneratorExit", None)
    /\ UNCHANGED <<st_timeout, st_cmd, st_proc, st_stdout, st_fired>>
    /\ UNCHANGED <<execVars, serverVars, securityVars, loggerVars, historyVars, writerVars>>

\* an Exception is raised at the yield (athrow)
StYieldFails ==
    /\ st_pc = "yield"
    /\ st_pc' = "done"
    /\ \E r \in KillAndReraise(st_proc, Ended("Exception", None)) :
          st_proc' = r.proc /\ st_outcome' = r.outcome
    /\ UNCHANGED <<st_timeout, st_cmd, st_stdout, st_fired>>
    /\ UNCHANGED <<execVars, serverVars, securityVars, loggerVars, historyVars, writerVars>>

\* readline returns b"": the loop and the timeout block are left, the
\* generator goes on to "await process.wait()"
StEOF ==
    /\ st_pc = "readline"
    /\ st_stdout.buffered = 0
    /\ ~st_stdout.open
    /\ st_pc' = "wait"
    /\ UNCHANGED <<st_timeout, st_cmd, st_proc, st_stdout, st_fired, st_outcome>>
    /\ UNCHANGED <<execVars, serverVars, securityVars, loggerVars, historyVars, writerVars>>

\* the error raised inside the try block once process.wait() has returned
ExitError(p, cmd) ==
    IF ~cmd.utf8 THEN Ended("UnicodeDecodeError", None)
    ELSE Ended("TerminalError", p.returncode)

\* process.wait() returns: a non-zero code raises TerminalError inside the
\* try block, code 0 ends the generator
StWaited ==
    /\ st_pc = "wait"
    /\ st_proc.state = "reaped"
    /\ st_pc' = "done"
    /\ IF st_proc.returncode # Some(0)
       THEN \E r \in KillAndReraise(st_proc, ExitError(st_proc, st_cmd)) :
               st_proc' = r.proc /\ st_outcome' = r.outcome
       ELSE st_outcome' = Ended("StopAsyncIteration", None) /\ UNCHANGED st_proc
    /\ UNCHANGED <<st_timeout, st_cmd, st_stdout, st_fired>>
    /\ UNCHANGED <<execVars, serverVars, securityVars, loggerVars, historyVars, writerVars>>

\* the deadline of asyncio.timeout fires while readline is awaited:
\* process.terminate() (an error of which leaves the generator), then the
\* grace sleep
StDeadline ==
    /\ st_pc = "readline"
    /\ st_timeout # None
    /\ st_fired' = TRUE
    /\ \/ /\ st_proc' = SendSignal(st_proc, SIGTERM)
          /\ st_pc' = "grace"
          /\ UNCHANGED st_outcome
       \/ /\ \E k \in SignalFails(st_proc) : st_outcome' = Ended(k, None)
          /\ st_pc' = "done"
          /\ UNCHANGED st_proc
    /\ UNCHANGED <<st_timeout, st_cmd, st_stdout>>
    /\ UNCHANGED <<execVars, serverVars, securityVars, loggerVars, historyVars, writerVars>>

\* the grace sleep is over: kill if not reaped, raise CommandTimeoutError
StGraceOver ==
    /\ st_pc = "grace"
    /\ \/ /\ st_proc' = KillIfRunning(st_proc)
          /\ st_outcome' = TimedOutOutcome(st_proc)
       \/ /\ st_proc.returncode = None
          /\ \E k \in SignalFails(st_proc) : st_outcome' = Ended(k, None)
          /\ UNCHANGED st_proc
    /\ st_pc' = "done"
    /\ UNCHANGED <<st_timeout, st_cmd, st_stdout, st_fired>>
    /\ UNCHANGED <<execVars, serverVars, securityVars, loggerVars, historyVars, writerVars>>

StSuspended == {"create", "readline", "wait", "grace"}

\* the consuming task is cancelled while the generator awaits: CancelledError
\* is no Exception and no except clause of the generator catches it
StCancelled ==
    /\ st_pc \in StSuspended
    /\ st_pc' = "done"
    /\ st_outcome' = Ended("CancelledError", None)
    /\ UNCHANGED <<st_timeout, st_cmd, st_proc, st_stdout, st_fired>>
    /\ UNCHANGED <<execVars, serverVars, securityVars, loggerVars, historyVars, writerVars>>

\* exit statuses of a streaming child: it exits on its own when it has
\* written its lines and is not blocked on stderr
StExitCodes(p, cmd, out) ==
    (IF cmd.exits = "never" \/ cmd.fillsStderr \/ out.towrite # 0 THEN {}
     ELSE IF cmd.exits = "zero" THEN {0} ELSE {1})
    \cup (IF p.sigkill THEN {-SIGKILL} ELSE {})
    \cup (IF p.sigterm /\ cmd.honoursTerm THEN {-SIGTERM} ELSE {})

StChildWrites ==
    /\ st_proc.state = "running"
    /\ st_stdout.open
    /\ st_stdout.towrite # 0
    /\ st_stdout.buffered < PipeCapacity
    /\ st_stdout' = [st_stdout EXCEPT !.buffered = @ + 1,
                                      !.towrite = IF @ = Forever THEN @ ELSE @ - 1]
    /\ UNCHANGED <<st_pc, st_timeout, st_cmd, st_proc, st_fired, st_outcome>>
    /\ UNCHANGED <<execVars, serverVars, securityVars, loggerVars, historyVars, writerVars>>

StChildClosesStdout ==
    /\ st_proc.state = "running"
    /\ st_cmd.closesStdout
    /\ st_stdout.open
    /\ st_stdout.towrite = 0
    /\ st_stdout' = [st_stdout EXCEPT !.open = FALSE]
    /\ UNCHANGED <<st_pc, st_timeout, st_cmd, st_proc, st_fired, st_outcome>>
    /\ UNCHANGED <<execVars, serverVars, securityVars, loggerVars, historyVars, writerVars>>

StChildExits ==
    /\ st_proc.state = "running"
    /\ \E code \in StExitCodes(st_proc, st_cmd, st_stdout) :
          st_proc' = ChildExits(st_proc, st_cmd, code)
    /\ st_stdout' = [st_stdout EXCEPT !.open = FALSE]
    /\ UNCHANGED <<st_pc, st_timeout, st_cmd, st_fired, st_outcome>>
    /\ UNCHANGED <<execVars, serverVars, securityVars, loggerVars, historyVars, writerVars>>

StChildReaped ==
    /\ st_proc.state = "exited"
    /\ st_proc' = ChildReaped(st_proc)
    /\ UNCHANGED <<st_pc, st_timeout, st_cmd, st_stdout, st_fired, st_outcome>>
    /\ UNCHANGED <<execVars, serverVars, securityVars, loggerVars, historyVars, writerVars>>

StInit ==
    /\ st_pc = "idle"
    /\ st_timeout = None
    /\ st_cmd = [exits |-> "never", honoursTerm |-> FALSE, lines |-> 0,
                 closesStdout |-> FALSE, fillsStderr |-> FALSE, overLimit |-> FALSE,
                 utf8 |-> TRUE]
    /\ st_proc = NoProcess
    /\ st_stdout = NoPipe
    /\ st_fired = FALSE
    /\ st_outcome = NotEnded

StNext ==
    \/ \E timeout \in Timeouts, cmd \in StreamCommands : execute_streaming(timeout, cmd)
    \/ StCreated
    \/ StCreateFails
    \/ StReadLine
    \/ StConsumerNext
    \/ StConsumerCloses
    \/ StYieldFails
    \/ StEOF
    \/ StWaited
    \/ StDeadline
    \/ StGraceOver
    \/ StCancelled
    \/ StChildWrites
    \/ StChildClosesStdout
    \/ StChildExits
    \/ StChildReaped

(***************************************************************************)
(* Strings.  A str is a TLA+ string; Len, SubSeq and \o apply to it.       *)
(***************************************************************************)
CharAt(s, i) == SubSeq(s, i, i)

\* c is one of the characters of the string class
InClass(c, class) == \E i \in 1..Len(class) : CharAt(class, i) = c

Alnum == "abcdefghijklmnopqrstuvwxyzABCDEFGHIJKLMNOPQRSTUVWXYZ0123456789"

\* [a-zA-Z0-9_-]
CommandClass == Alnum \o "_-"

\* [a-zA-Z0-9_\-\.\/]
ArgumentClass == Alnum \o "_-./"

\* re.match("^[class]+$", s): "$" also matches before a trailing newline
MatchesClass(s, class) ==
    LET n == IF Len(s) > 0 /\ CharAt(s, Len(s)) = "\n" THEN Len(s) - 1 ELSE Len(s)
    IN  n > 0 /\ \A i \in 1..n : InClass(CharAt(s, i), class)

\* The grave accent cannot be written in a TLA+ string: this character,
\* which no pattern and no class of the sanitizer names, stands for it.
GraveAccent == "^"

\* one of DANGEROUS_PATTERNS matches at position i
DangerousAt(s, i) ==
    \/ InClass(CharAt(s, i), ";&|><" \o GraveAccent)
    \/ i < Len(s) /\ SubSeq(s, i, i + 1) \in {"$(", "${", "[[", "]]"}

\* re.search('|'.join(DANGEROUS_PATTERNS), s)
HasDangerousPattern(s) == \E i \in 1..Len(s) : DangerousAt(s, i)

(***************************************************************************)
(* Paths.  pathlib on a file system whose symbolic links are fs_links, the *)
(* process running in Cwd: nothing in the program changes its working      *)
(* directory.  A link maps the absolute name of the link to the canonical  *)
(* absolute path it points to.                                             *)
(***************************************************************************)
Cwd == "/srv/app"

NoLinks == <<>>

\* chr(0): TLA+ has no literal for it, the form feed stands for it
Nul == "\f"

HasNul(s) == \E i \in 1..Len(s) : CharAt(s, i) = Nul

IsAbsolute(path) == Len(path) > 0 /\ CharAt(path, 1) = "/"

\* position of the first "/" of s at or after i, 0 when there is none
RECURSIVE SlashFrom(_, _)
SlashFrom(s, i) ==
    IF i > Len(s) THEN 0
    ELSE IF CharAt(s, i) = "/" THEN i
    ELSE SlashFrom(s, i + 1)

\* the names between the slashes of s, empty names and "." dropped
RECURSIVE Components(_)
Components(s) ==
    IF Len(s) = 0 THEN <<>>
    ELSE LET k == SlashFrom(s, 1)
             first == IF k = 0 THEN s ELSE SubSeq(s, 1, k - 1)
             rest == IF k = 0 THEN "" ELSE SubSeq(s, k + 1, Len(s))
         IN  (IF first \in {"", "."} THEN <<>> ELSE <<first>>) \o Components(rest)

\* PurePath.parts: the root, when there is one, then the names
Parts(path) == (IF IsAbsolute(path) THEN <<"/">> ELSE <<>>) \o Components(path)

RECURSIVE JoinNames(_)
JoinNames(names) ==
    IF names = <<>> THEN "" ELSE "/" \o Head(names) \o JoinNames(Tail(names))

\* os.path.realpath, name by name: ".." removes the name before it, and is
\* dropped at the root; a name that is a symbolic link is replaced by its
\* target
RECURSIVE Collapse(_, _)
Collapse(done, todo) ==
    IF todo = <<>> THEN done
    ELSE IF Head(todo) = ".."
         THEN Collapse(IF done = <<>> THEN done ELSE SubSeq(done, 1, Len(done) - 1),
                       Tail(todo))
         ELSE LET name == JoinNames(Append(done, Head(todo)))
              IN  IF name \in DOMAIN fs_links
                  THEN Collapse(Components(fs_links[name]), Tail(todo))
                  ELSE Collapse(Append(done, Head(todo)), Tail(todo))

\* Path(path).resolve() raises ValueError("embedded null byte")
ResolveRaises(path) == HasNul(path)

\* str(Path(path).resolve()), when it does not raise
Resolve(path) ==
    LET names == Collapse(<<>>, (IF IsAbsolute(path) THEN <<>> ELSE Components(Cwd))
                                 \o Components(path))
    IN  IF names = <<>> THEN "/" ELSE JoinNames(names)

\* a comparison of the strings, as str.startswith makes it
IsRelativeTo_StringPrefix(path, other) ==
    Len(other) <= Len(path) /\ SubSeq(path, 1, Len(other)) = other

\* PurePath.is_relative_to: other is a prefix of the parts; a path with a
\* root is not relative to the empty path "."
IsRelativeTo(path, other) ==
    LET p == Parts(path)
        o == Parts(other)
    IN  IF o = <<>> THEN ~IsAbsolute(path)
        ELSE Len(o) <= Len(p) /\ SubSeq(p, 1, Len(o)) = o

(***************************************************************************)
(* CommandSanitizer.  A result is [ok |-> TRUE, value |-> v] or            *)
(* [ok |-> FALSE, error |-> kind, message |-> str(e)].                     *)
(***************************************************************************)
Ok(v) == [ok |-> TRUE, value |-> v]

Raise(kind, message) == [ok |-> FALSE, error |-> kind, message |-> message]

sanitize_command(command) ==
    IF HasDangerousPattern(command) \/ ~MatchesClass(command, CommandClass)
    THEN Raise("ValueError", "Command contains disallowed characters")
    ELSE Ok(command)

sanitize_path(path) ==
    IF ResolveRaises(path)
    THEN Raise("ValueError", "Invalid path: embedded null byte")
    ELSE IF HasDangerousPattern(Resolve(path))
    THEN Raise("ValueError", "Invalid path: Path contains disallowed characters")
    ELSE Ok(Resolve(path))

sanitize_arguments(args) ==
    IF \E i \in 1..Len(args) :
          HasDangerousPattern(args[i]) \/ ~MatchesClass(args[i], ArgumentClass)
    THEN Raise("ValueError", "Arguments contain disallowed characters")
    ELSE Ok(args)

(***************************************************************************)
(* CommandValidator.                                                       *)
(***************************************************************************)
InList(x, list) == \E i \in 1..Len(list) : list[i] = x

\* a validator that is content with one allowed argument
validate_command_AnyArgument(policy, command, args, path) ==
    IF ~MatchesClass(command, CommandClass)
    THEN Raise("ValidationError", "Command contains invalid characters")
    ELSE IF command \notin DOMAIN policy
    THEN Raise("ValidationError", "Command is not allowed")
    ELSE IF args # <<>> /\ \A i \in 1..Len(args) : ~InList(args[i], policy[command].args)
    THEN Raise("ValidationError", "Argument is not allowed for command")
    ELSE IF ResolveRaises(path)
    THEN Raise("ValueError", "embedded null byte")
    ELSE IF ~\E i \in 1..Len(policy[command].paths) :
               IsRelativeTo(Resolve(path), policy[command].paths[i])
    THEN Raise("ValidationError", "Path is not allowed for command")
    ELSE Ok(TRUE)

\* a validator that checks the arguments of the first call only
validate_command_ArgumentsOnce(policy, command, args, path) ==
    IF ~MatchesClass(command, CommandClass)
    THEN Raise("ValidationError", "Command contains invalid characters")
    ELSE IF command \notin DOMAIN policy
    THEN Raise("ValidationError", "Command is not allowed")
    ELSE IF sec_call.fn = "" /\ \E i \in 1..Len(args) : ~InList(args[i], policy[command].args)
    THEN Raise("ValidationError", "Argument is not allowed for command")
    ELSE IF ResolveRaises(path)
    THEN Raise("ValueError", "embedded null byte")
    ELSE IF ~\E i \in 1..Len(policy[command].paths) :
               IsRelativeTo(Resolve(path), policy[command].paths[i])
    THEN Raise("ValidationError", "Path is not allowed for command")
    ELSE Ok(TRUE)

validate_command(policy, command, args, path) ==
    IF ~MatchesClass(command, CommandClass)
    THEN Raise("ValidationError", "Command contains invalid characters")
    ELSE IF command \notin DOMAIN policy
    THEN Raise("ValidationError", "Command is not allowed")
    ELSE IF \E i \in 1..Len(args) : ~InList(args[i], policy[command].args)
    THEN Raise("ValidationError", "Argument is not allowed for command")
    ELSE IF ResolveRaises(path)
    THEN Raise("ValueError", "embedded null byte")
    ELSE IF ~\E i \in 1..Len(policy[command].paths) :
               IsRelativeTo(Resolve(path), policy[command].paths[i])
    THEN Raise("ValidationError", "Path is not allowed for command")
    ELSE Ok(TRUE)

\* a probe that looks at the path only
is_path_allowed_UnknownCommand(policy, path, command) ==
    IF ResolveRaises(path)
    THEN Raise("ValueError", "embedded null byte")
    ELSE Ok(\E c \in DOMAIN policy : \E i \in 1..Len(policy[c].paths) :
               IsRelativeTo(Resolve(path), policy[c].paths[i]))

\* never reads the arguments of a command
is_path_allowed(policy, path, command) ==
    IF command \notin DOMAIN policy THEN Ok(FALSE)
    ELSE IF ResolveRaises(path)
    THEN Raise("ValueError", "embedded null byte")
    ELSE Ok(\E i \in 1..Len(policy[command].paths) :
               IsRelativeTo(Resolve(path), policy[command].paths[i]))

(***************************************************************************)
(* CommandParser.                                                          *)
(***************************************************************************)
Whitespace == " \t\r\n"

\* The lexer of shlex.split(s) in POSIX mode between two characters: state is
\* " " between tokens, "a" in a word, or the quote that is open; token is
\* None between tokens.
Lexer(i, state, token, parts, error) ==
    [i |-> i, state |-> state, token |-> token, parts |-> parts, error |-> error]

\* One character read.  Single quotes keep every character; in double quotes
\* a backslash escapes the quote and the backslash only; elsewhere it escapes
\* the next character; whitespace outside quotes ends the token.
read_token_char(s, lex) ==
    LET i == lex.i
        c == CharAt(s, i)
        text == IF lex.token = None THEN "" ELSE lex.token[1]
        NoEscaped == Lexer(i, lex.state, lex.token, lex.parts, "No escaped character")
    IN  IF lex.state = "'"
        THEN IF c = "'" THEN Lexer(i + 1, "a", lex.token, lex.parts, "")
             ELSE Lexer(i + 1, "'", Some(text \o c), lex.parts, "")
        ELSE IF lex.state = "\""
        THEN IF c = "\"" THEN Lexer(i + 1, "a", lex.token, lex.parts, "")
             ELSE IF c = "\\"
             THEN IF i = Len(s) THEN NoEscaped
                  ELSE Lexer(i + 2, "\"",
                             Some(text \o (IF CharAt(s, i + 1) \in {"\"", "\\"}
                                           THEN CharAt(s, i + 1)
                                           ELSE c \o CharAt(s, i + 1))),
                             lex.parts, "")
             ELSE Lexer(i + 1, "\"", Some(text \o c), lex.parts, "")
        ELSE IF InClass(c, Whitespace)
        THEN Lexer(i + 1, " ", None,
                   IF lex.token = None THEN lex.parts ELSE Append(lex.parts, text), "")
        ELSE IF c = "\\"
        THEN IF i = Len(s) THEN NoEscaped
             ELSE Lexer(i + 2, "a", Some(text \o CharAt(s, i + 1)), lex.parts, "")
        ELSE IF c \in {"'", "\""} THEN Lexer(i + 1, c, Some(text), lex.parts, "")
        ELSE Lexer(i + 1, "a", Some(text \o c), lex.parts, "")

RECURSIVE shlex_read(_, _)
shlex_read(s, lex) ==
    IF lex.error # "" THEN Raise("ValueError", lex.error)
    ELSE IF lex.i > Len(s)
    THEN IF lex.state \in {"'", "\""} THEN Raise("ValueError", "No closing quotation")
         ELSE Ok(IF lex.token = None THEN lex.parts ELSE Append(lex.parts, lex.token[1]))
    ELSE shlex_read(s, read_token_char(s, lex))

shlex_split(s) == shlex_read(s, Lexer(1, " ", None, <<>>, ""))

ParsedCommand(command, args, path) == [command |-> command, args |-> args, path |-> path]

\* a parser that takes the first token that looks like a path for the path
parse_FirstPathToken(policy, command_string) ==
    LET split == shlex_split(command_string)
        parts == split.value
        k == CHOOSE i \in 2..Len(parts) :
                 /\ i = Len(parts) \/ CharAt(parts[i], 1) = "/"
                 /\ \A j \in 2..(i - 1) : CharAt(parts[j], 1) # "/"
        v == validate_command(policy, parts[1], SubSeq(parts, 2, k - 1), Resolve(parts[k]))
    IN  IF command_string = ""
        THEN Raise("CommandParseError", "Invalid command format: empty command")
        ELSE IF ~split.ok
        THEN Raise("CommandParseError", "Failed to parse command: " \o split.message)
        ELSE IF Len(parts) < 2
        THEN Raise("CommandParseError",
                   "Invalid command format: must include command and path")
        ELSE IF ResolveRaises(parts[k])
        THEN Raise("ValidationError", "Command validation failed: embedded null byte")
        ELSE IF ~v.ok
        THEN Raise("ValidationError", "Command validation failed: " \o v.message)
        ELSE Ok(ParsedCommand(parts[1], SubSeq(parts, 2, k - 1), Resolve(parts[k])))

\* CommandParser.parse with the validator of the parser
parse(policy, command_string) ==
    LET split == shlex_split(command_string)
        parts == split.value
        command == parts[1]
        path == parts[Len(parts)]
        args == SubSeq(parts, 2, Len(parts) - 1)
        v == validate_command(policy, command, args, Resolve(path))
    IN  IF command_string = ""
        THEN Raise("CommandParseError", "Invalid command format: empty command")
        ELSE IF ~split.ok
        THEN Raise("CommandParseError", "Failed to parse command: " \o split.message)
        ELSE IF Len(parts) < 2
        THEN Raise("CommandParseError",
                   "Invalid command format: must include command and path")
        ELSE IF ResolveRaises(path)
        THEN Raise("ValidationError", "Command validation failed: embedded null byte")
        ELSE IF ~v.ok
        THEN Raise("ValidationError", "Command validation failed: " \o v.message)
        ELSE Ok(ParsedCommand(command, args, Resolve(path)))

(***************************************************************************)
(* CommandServer.check_command_allowed.                                    *)
(***************************************************************************)
\* "except (ValueError, ValidationError): return False"
CaughtByCheck(result) ==
    IF result.error \in {"ValueError", "ValidationError"} THEN Ok(FALSE) ELSE result

\* a check that takes the failures of the sanitizer for the client's business
check_command_allowed_SanitizerErrorsRaised(policy, command, args, path) ==
    LET c == sanitize_command(command)
        a == sanitize_arguments(args)
        p == sanitize_path(path)
        v == validate_command(policy, c.value, a.value, p.value)
    IN  IF ~c.ok THEN c
        ELSE IF ~a.ok THEN a
        ELSE IF ~p.ok THEN p
        ELSE IF ~v.ok THEN CaughtByCheck(v)
        ELSE Ok(TRUE)

\* sanitize_command, sanitize_arguments, sanitize_path, validate_command
check_command_allowed(policy, command, args, path) ==
    LET c == sanitize_command(command)
        a == sanitize_arguments(args)
        p == sanitize_path(path)
        v == validate_command(policy, c.value, a.value, p.value)
    IN  IF ~c.ok THEN CaughtByCheck(c)
        ELSE IF ~a.ok THEN CaughtByCheck(a)
        ELSE IF ~p.ok THEN CaughtByCheck(p)
        ELSE IF ~v.ok THEN CaughtByCheck(v)
        ELSE Ok(TRUE)

(***************************************************************************)
(* UserConfirmationHandler.                                                *)
(***************************************************************************)
\* a handler for which everything done to the root directory is high risk
_assess_risk_RootIsHigh(command, args, path) ==
    IF path = "/" THEN "HIGH"
    ELSE IF command \in {"ls", "cat", "head", "tail"} THEN "LOW"
    ELSE IF command \in {"rm", "mv"} \/ InList("-f", args) \/ InList("--force", args)
    THEN "HIGH"
    ELSE "MEDIUM"

_assess_risk(command, args, path) ==
    IF command \in {"ls", "cat", "head", "tail"} THEN "LOW"
    ELSE IF command \in {"rm", "mv"} \/ InList("-f", args) \/ InList("--force", args)
    THEN "HIGH"
    ELSE "MEDIUM"

\* the CommandConfirmation handed to the callback
require_confirmation(command, args, path, user) ==
    [command |-> command, args |-> args, path |-> path, user |-> user,
     risk_level |-> _assess_risk(command, args, path)]

(***************************************************************************)
(* AuditLogger.log_command_execution: the record appended to the log.      *)
(* The timestamp is left out: no operation reads it.                       *)
(***************************************************************************)
log_entry(request, command, arguments, path, status, user, error_message) ==
    [request |-> request, command |-> command, arguments |-> arguments,
     path |-> path, status |-> status, user |-> user,
     error |-> IF Truthy(error_message) THEN error_message ELSE None]

(***************************************************************************)
(* CommandServer: the execute_command tool.                                *)
(***************************************************************************)
Requests == 1..NumRequests

\* the policy the server is constructed with
allowed_commands ==
    "ls" :> [args |-> <<"-l", "-a">>, paths |-> <<"/home/user">>]

user == "default_user"

\* the requests a client sends
CommandInputs == {"ls", "rm", "ls;"}

ArgsInputs == {<<"-l">>, <<"-r">>, <<"-l", "|">>}

PathInputs == {"/home/user", "/home/user/docs/..", "/etc", "/home/user/a&b"}

\* what the approved command does once launched
ServerCommands == [exits : {"never", "zero", "nonzero"}, utf8 : BOOLEAN]

\* what the approval callback does with a CommandConfirmation
CallbackAnswers == {"yes", "no", "raises"}

\* messages of the errors report_progress can raise
ProgressErrors == {"", "connection closed"}

NoRequest == [command |-> "", args |-> <<>>, path |-> ""]

\* the child of a request: state is "none", "running" or "exited" (and reaped)
NoChild ==
    [state |-> "none", cmd |-> [exits |-> "never", utf8 |-> TRUE], returncode |-> None,
     stdout |-> <<>>, stderr |-> <<>>]

\* the stages of the pipeline, as run
Stage(name, ok) == [stage |-> name, ok |-> ok]

\* the entries of the stages run by a sequence of calls: all up to and
\* including the first that raises
RECURSIVE StagesRun(_, _)
StagesRun(names, results) ==
    IF names = <<>> THEN <<>>
    ELSE <<Stage(Head(names), Head(results).ok)>>
         \o (IF Head(results).ok THEN StagesRun(Tail(names), Tail(results)) ELSE <<>>)

\* the first result that is an error
FirstError(results) ==
    results[CHOOSE i \in 1..Len(results) :
               ~results[i].ok /\ \A j \in 1..(i - 1) : results[j].ok]

\* "except Exception as e": the failure is logged with the current values of
\* command, args and path, and e is raised again; when the append fails,
\* RuntimeError leaves the handler instead
SrvFails(r, locals, kind, message, written) ==
    /\ srv_pc' = [srv_pc EXCEPT ![r] = "done"]
    /\ srv_req' = [srv_req EXCEPT ![r] = locals]
    /\ IF written
       THEN /\ audit' = Append(audit, log_entry(r, locals.command, locals.args, locals.path,
                                                "failed", user, Some(message)))
            /\ srv_outcome' = [srv_outcome EXCEPT ![r] = kind]
       ELSE /\ audit' = audit
            /\ srv_outcome' = [srv_outcome EXCEPT ![r] = "RuntimeError"]

\* the tool is called: ctx.info, then "await ctx.report_progress(10, 100)"
execute_command(r, command, args, path) ==
    /\ srv_pc[r] = "idle"
    /\ srv_pc' = [srv_pc EXCEPT ![r] = "progress10"]
    /\ srv_req' = [srv_req EXCEPT ![r] = [command |-> command, args |-> args, path |-> path]]
    /\ UNCHANGED <<srv_trace, srv_child, srv_outcome, audit>>
    /\ UNCHANGED <<srv_prompts, srv_result>>
    /\ UNCHANGED <<execVars, streamVars, securityVars, loggerVars, historyVars, writerVars>>

\* sanitize_command, sanitize_arguments, sanitize_path, each rebinding its
\* argument, then "await ctx.report_progress(30, 100)"
SrvSanitize(r) ==
    /\ srv_pc[r] = "progress10"
    /\ LET c == sanitize_command(srv_req[r].command)
           a == sanitize_arguments(srv_req[r].args)
           p == sanitize_path(srv_req[r].path)
           results == <<c, a, p>>
           locals == [srv_req[r] EXCEPT !.path = IF c.ok /\ a.ok /\ p.ok THEN p.value ELSE @]
       IN  /\ srv_trace' = [srv_trace EXCEPT ![r] = @ \o
                 StagesRun(<<"sanitize_command", "sanitize_arguments", "sanitize_path">>,
                           results)]
           /\ IF c.ok /\ a.ok /\ p.ok
              THEN /\ srv_pc' = [srv_pc EXCEPT ![r] = "progress30"]
                   /\ srv_req' = [srv_req EXCEPT ![r] = locals]
                   /\ UNCHANGED <<srv_outcome, audit>>
              ELSE \E written \in BOOLEAN :
                      SrvFails(r, locals, FirstError(results).error,
                               FirstError(results).message, written)
    /\ UNCHANGED srv_child
    /\ UNCHANGED <<srv_prompts, srv_result>>
    /\ UNCHANGED <<execVars, streamVars, securityVars, loggerVars, historyVars, writerVars>>

\* validator.validate_command, then "await ctx.report_progress(50, 100)"
SrvValidate(r) ==
    /\ srv_pc[r] = "progress30"
    /\ LET v == validate_command(allowed_commands, srv_req[r].command, srv_req[r].args,
                                 srv_req[r].path)
       IN  /\ srv_trace' = [srv_trace EXCEPT ![r] = Append(@, Stage("validate_command", v.ok))]
           /\ IF v.ok
              THEN /\ srv_pc' = [srv_pc EXCEPT ![r] = "progress50"]
                   /\ UNCHANGED <<srv_req, srv_outcome, audit>>
              ELSE \E written \in BOOLEAN :
                      SrvFails(r, srv_req[r], v.error, v.message, written)
    /\ UNCHANGED srv_child
    /\ UNCHANGED <<srv_prompts, srv_result>>
    /\ UNCHANGED <<execVars, streamVars, securityVars, loggerVars, historyVars, writerVars>>

\* a pipeline that does not test the answer of the callback
Confirmed_AnswerIgnored(answer) ==
    IF answer = "raises" THEN Raise("EOFError", "EOF when reading a line") ELSE Ok(TRUE)

\* a pipeline that reports a denial as the validator reports a rejection
Confirmed_DenialAsRejection(answer) ==
    IF answer = "yes" THEN Ok(TRUE)
    ELSE IF answer = "no"
    THEN Raise("ValidationError", "Command is not allowed")
    ELSE Raise("EOFError", "EOF when reading a line")

\* what execute_command does with the answer of the approval callback
Confirmed(answer) ==
    IF answer = "yes" THEN Ok(TRUE)
    ELSE IF answer = "no"
    THEN Raise("PermissionError", "Command execution not confirmed by user")
    ELSE Raise("EOFError", "EOF when reading a line")

\* confirmation.require_confirmation hands the CommandConfirmation to the
\* callback; then "await ctx.report_progress(70, 100)"
SrvConfirm(r) ==
    /\ srv_pc[r] = "progress50"
    /\ \E answer \in CallbackAnswers :
          LET c == Confirmed(answer)
          IN  /\ srv_trace' = [srv_trace EXCEPT ![r] =
                                  Append(@, Stage("require_confirmation", answer = "yes"))]
              /\ srv_prompts' = [srv_prompts EXCEPT ![r] =
                    Append(@, [confirmation |-> require_confirmation(srv_req[r].command,
                                   srv_req[r].args, srv_req[r].path, user),
                               answer |-> answer])]
              /\ IF c.ok
                 THEN /\ srv_pc' = [srv_pc EXCEPT ![r] = "progress70"]
                      /\ UNCHANGED <<srv_req, srv_outcome, audit>>
                 ELSE \E written \in BOOLEAN :
                         SrvFails(r, srv_req[r], c.error, c.message, written)
    /\ UNCHANGED <<srv_child, srv_result>>
    /\ UNCHANGED <<execVars, streamVars, securityVars, loggerVars, historyVars, writerVars>>

\* _execute_command_async is entered: "await asyncio.create_subprocess_exec"
SrvExecute(r) ==
    /\ srv_pc[r] = "progress70"
    /\ srv_pc' = [srv_pc EXCEPT ![r] = "create"]
    /\ UNCHANGED <<srv_req, srv_trace, srv_child, srv_outcome, audit>>
    /\ UNCHANGED <<srv_prompts, srv_result>>
    /\ UNCHANGED <<execVars, streamVars, securityVars, loggerVars, historyVars, writerVars>>

\* the child is launched: "await process.communicate()", without a deadline
SrvCreated(r) ==
    /\ srv_pc[r] = "create"
    /\ \E cmd \in ServerCommands :
          srv_child' = [srv_child EXCEPT ![r] =
                           [NoChild EXCEPT !.state = "running", !.cmd = cmd,
                                           !.stdout = <<"stdout of the child of", r>>,
                                           !.stderr = <<"stderr of the child of", r>>]]
    /\ srv_trace' = [srv_trace EXCEPT ![r] = Append(@, Stage("create_subprocess_exec", TRUE))]
    /\ srv_pc' = [srv_pc EXCEPT ![r] = "communicate"]
    /\ UNCHANGED <<srv_req, srv_outcome, audit>>
    /\ UNCHANGED <<srv_prompts, srv_result>>
    /\ UNCHANGED <<execVars, streamVars, securityVars, loggerVars, historyVars, writerVars>>

\* create_subprocess_exec raises: no such program, no such directory
SrvCreateFails(r) ==
    /\ srv_pc[r] = "create"
    /\ \E written \in BOOLEAN :
          SrvFails(r, srv_req[r], "FileNotFoundError", "No such file or directory", written)
    /\ UNCHANGED <<srv_trace, srv_child>>
    /\ UNCHANGED <<srv_prompts, srv_result>>
    /\ UNCHANGED <<execVars, streamVars, securityVars, loggerVars, historyVars, writerVars>>

\* CalledProcessError(process.returncode, cmd, output=stdout, stderr=stderr)
CalledProcessError(child) ==
    [ok |-> FALSE, error |-> "CalledProcessError",
     message |-> "Command returned non-zero exit status",
     returncode |-> child.returncode, output |-> child.stdout, stderr |-> child.stderr]

\* a server that keeps the subprocess in an attribute shared by the requests
AsyncResult_SharedProcess(child) ==
    IF srv_child[1].returncode # Some(0) THEN CalledProcessError(srv_child[1])
    ELSE IF ~srv_child[1].cmd.utf8
    THEN Raise("UnicodeDecodeError", "'utf-8' codec can't decode byte")
    ELSE Ok(srv_child[1].stdout)

\* the result of _execute_command_async for a child that exited:
\* stdout.decode(), or the error raised
AsyncResult(child) ==
    IF child.returncode # Some(0) THEN CalledProcessError(child)
    ELSE IF ~child.cmd.utf8
    THEN Raise("UnicodeDecodeError", "'utf-8' codec can't decode byte")
    ELSE Ok(child.stdout)

\* a pipeline that goes on when the success event could not be appended
SrvCommunicated_AppendFailureSwallowed(r) ==
    /\ srv_pc[r] = "communicate"
    /\ srv_child[r].state = "exited"
    /\ LET res == AsyncResult(srv_child[r])
       IN  IF res.ok
           THEN \E written \in BOOLEAN :
                   /\ audit' = IF written
                               THEN Append(audit, log_entry(r, srv_req[r].command,
                                               srv_req[r].args, srv_req[r].path,
                                               "success", user, None))
                               ELSE audit
                   /\ srv_pc' = [srv_pc EXCEPT ![r] = "progress100"]
                   /\ UNCHANGED <<srv_req, srv_outcome>>
           ELSE \E written \in BOOLEAN :
                   SrvFails(r, srv_req[r], res.error, res.message, written)
    /\ srv_result' = [srv_result EXCEPT ![r] = Some(AsyncResult(srv_child[r]))]
    /\ UNCHANGED <<srv_trace, srv_child, srv_prompts>>
    /\ UNCHANGED <<execVars, streamVars, securityVars, loggerVars, historyVars, writerVars>>

\* communicate returns.  A failure goes to the handler; a success is logged
\* and "await ctx.report_progress(100, 100)" follows; a failing append of the
\* success event raises RuntimeError inside the try block
SrvCommunicated(r) ==
    /\ srv_pc[r] = "communicate"
    /\ srv_child[r].state = "exited"
    /\ LET res == AsyncResult(srv_child[r])
       IN  IF res.ok
           THEN \E written \in BOOLEAN :
                   IF written
                   THEN /\ audit' = Append(audit, log_entry(r, srv_req[r].command,
                                               srv_req[r].args, srv_req[r].path,
                                               "success", user, None))
                        /\ srv_pc' = [srv_pc EXCEPT ![r] = "progress100"]
                        /\ UNCHANGED <<srv_req, srv_outcome>>
                   ELSE \E again \in BOOLEAN :
                           SrvFails(r, srv_req[r], "RuntimeError",
                                    "Failed to write to audit log", again)
           ELSE \E written \in BOOLEAN :
                   SrvFails(r, srv_req[r], res.error, res.message, written)
    /\ srv_result' = [srv_result EXCEPT ![r] = Some(AsyncResult(srv_child[r]))]
    /\ UNCHANGED <<srv_trace, srv_child, srv_prompts>>
    /\ UNCHANGED <<execVars, streamVars, securityVars, loggerVars, historyVars, writerVars>>

\* the last progress report returns: "return result"
SrvReturns(r) ==
    /\ srv_pc[r] = "progress100"
    /\ srv_pc' = [srv_pc EXCEPT ![r] = "done"]
    /\ srv_outcome' = [srv_outcome EXCEPT ![r] = "returned"]
    /\ UNCHANGED <<srv_req, srv_trace, srv_child, audit>>
    /\ UNCHANGED <<srv_prompts, srv_result>>
    /\ UNCHANGED <<execVars, streamVars, securityVars, loggerVars, historyVars, writerVars>>

SrvProgress == {"progress10", "progress30", "progress50", "progress70", "progress100"}

\* ctx.report_progress raises
SrvProgressFails(r) ==
    /\ srv_pc[r] \in SrvProgress
    /\ \E message \in ProgressErrors, written \in BOOLEAN :
          SrvFails(r, srv_req[r], "Exception", message, written)
    /\ UNCHANGED <<srv_trace, srv_child>>
    /\ UNCHANGED <<srv_prompts, srv_result>>
    /\ UNCHANGED <<execVars, streamVars, securityVars, loggerVars, historyVars, writerVars>>

SrvSuspended == SrvProgress \cup {"create", "communicate"}

\* the request is cancelled while suspended: CancelledError is no Exception,
\* so the handler of execute_command does not run
SrvCancelled(r) ==
    /\ srv_pc[r] \in SrvSuspended
    /\ srv_pc' = [srv_pc EXCEPT ![r] = "done"]
    /\ srv_outcome' = [srv_outcome EXCEPT ![r] = "CancelledError"]
    /\ UNCHANGED <<srv_req, srv_trace, srv_child, audit>>
    /\ UNCHANGED <<srv_prompts, srv_result>>
    /\ UNCHANGED <<execVars, streamVars, securityVars, loggerVars, historyVars, writerVars>>

\* the child of the request exits and is reaped
SrvChildExits(r) ==
    /\ srv_child[r].state = "running"
    /\ srv_child[r].cmd.exits # "never"
    /\ srv_child' = [srv_child EXCEPT ![r] =
          [@ EXCEPT !.state = "exited",
                    !.returncode = IF srv_child[r].cmd.exits = "zero" THEN Some(0)
                                   ELSE Some(1)]]
    /\ UNCHANGED <<srv_pc, srv_req, srv_trace, srv_outcome, audit>>
    /\ UNCHANGED <<srv_prompts, srv_result>>
    /\ UNCHANGED <<execVars, streamVars, securityVars, loggerVars, historyVars, writerVars>>

SrvInit ==
    /\ srv_pc = [r \in Requests |-> "idle"]
    /\ srv_req = [r \in Requests |-> NoRequest]
    /\ srv_trace = [r \in Requests |-> <<>>]
    /\ srv_child = [r \in Requests |-> NoChild]
    /\ srv_prompts = [r \in Requests |-> <<>>]
    /\ srv_result = [r \in Requests |-> None]
    /\ srv_outcome = [r \in Requests |-> "none"]
    /\ audit = <<>>

SrvNext ==
    \/ \E r \in Requests, command \in CommandInputs, args \in ArgsInputs, path \in PathInputs :
          execute_command(r, command, args, path)
    \/ \E r \in Requests : SrvSanitize(r)
    \/ \E r \in Requests : SrvValidate(r)
    \/ \E r \in Requests : SrvConfirm(r)
    \/ \E r \in Requests : SrvExecute(r)
    \/ \E r \in Requests : SrvCreated(r)
    \/ \E r \in Requests : SrvCreateFails(r)
    \/ \E r \in Requests : SrvCommunicated(r)
    \/ \E r \in Requests : SrvReturns(r)
    \/ \E r \in Requests : SrvProgressFails(r)
    \/ \E r \in Requests : SrvCancelled(r)
    \/ \E r \in Requests : SrvChildExits(r)

(***************************************************************************)
(* The security components called on their own: a CommandValidator is      *)
(* constructed with a policy, then the methods of CommandSanitizer,        *)
(* CommandValidator and UserConfirmationHandler are called in any order,   *)
(* one call after the other, while the file system changes under them.     *)
(* sec_call is the call whose outcome the caller holds, sec_again the      *)
(* outcome of calling the same method once more.                           *)
(***************************************************************************)
\* the policy of tests/unit/test_mcp_server.py
TestPolicy ==
    ("ls" :> [args |-> <<"-l">>, paths |-> <<"/home/user">>])
    @@ ("npm" :> [args |-> <<"run", "dev">>, paths |-> <<"./project">>])

\* entries of CommandServer.DEFAULT_ALLOWED_COMMANDS
DefaultPolicy ==
    ("ls" :> [args |-> <<"-l", "-a", "-h">>, paths |-> <<"/">>])
    @@ ("npm" :> [args |-> <<"run", "dev", "install", "test">>, paths |-> <<"./">>])

\* a policy with two prefixes for one command
HomePolicy ==
    "ls" :> [args |-> <<"-l", "-a">>, paths |-> <<"/home", "/srv/app/project">>]

\* the policy of tests/unit/command/test_parser.py
ParserPolicy ==
    ("list" :> [args |-> <<"-l", "-a", "--hidden">>, paths |-> <<"/home", "/usr/local">>])
    @@ ("copy" :> [args |-> <<"-r", "-f">>, paths |-> <<"/home", "/tmp">>])

EmptyPolicy == <<>>

Policies == {TestPolicy, DefaultPolicy, HomePolicy, ParserPolicy, EmptyPolicy}

\* the file systems: without links, and with one link that leaves /home
LinkSets == {NoLinks, "/home/user/pub" :> "/etc"}

\* the values the methods are called with
SecCommands == {"ls", "npm", "rm", "ls;", "ls\n", "ls -l", ""}

SecArgs == {<<>>, <<"-l">>, <<"-r">>, <<"-l", "-r">>, <<"run", "dev">>,
            <<"-f">>, <<"-l", "--force">>, <<"a$(b">>, <<"-l\n">>}

SecPaths == {"/home/user", "/home/user/docs", "/home", "/homefoo",
             "/home/user/../../etc", "/home/user/pub/x", "/etc/passwd",
             "./project", "project/src", "/srv/app/project", ".", "../../../etc/passwd",
             "/tmp/a;b", "/tmp/a;b/../c", "/home/user/" \o Nul}

\* the values require_confirmation is called with
ConfirmCommands == {"ls", "cat", "head", "tail", "rm", "mv", "npm", "sudo"}

ConfirmArgs == {<<>>, <<"-l">>, <<"-f">>, <<"-l", "--force">>, <<"-rf">>,
                <<"-rf", "/test/path">>, <<"rm", "-rf", "/">>}

\* what get_claude_response answers
ClaudeAnswers == {"True", "False", "None"}

ConfirmPaths == {"/home/user", "/", "./project"}

SecUsers == {"default_user", "admin"}

\* the command lines CommandParser.parse is called with
CommandStrings ==
    {"", " ", "list", "list /home/user", "list -l -a /home/user", "list --invalid /home/user",
     "list; rm -rf /home/user", "delete /home/user", "list ../../../etc/passwd",
     "list -l /etc/passwd", "list \"/home/user", "list '/home/user/My Documents'",
     "list /home/user\\", "list /home/user/pub/x", "list /home/user/docs/..",
     "copy -r \"/home/user/My Documents\" /home/backup", "copy -r /home/user /tmp/x",
     "ls -l /home/user", "ls\t-l\n/home/user", "list /home/user/" \o Nul,
     "list \"\"", "list /home/a\\ b"}

\* the policy CommandServer is constructed with: none given, or one
ServerPolicies == {None} \cup {Some(policy) : policy \in Policies}

NoCall == [fn |-> "", command |-> "", args |-> <<>>, path |-> "", user |-> "",
           links |-> NoLinks, result |-> Ok(TRUE)]

\* a call, the file system it ran on, and what it returned or raised
Call(fn, command, args, path, usr, result) ==
    [fn |-> fn, command |-> command, args |-> args, path |-> path, user |-> usr,
     links |-> fs_links, result |-> result]

\* CommandValidator.__init__: an empty policy raises
CommandValidator(policy) ==
    /\ sec_call.fn = ""
    /\ val_policy = None
    /\ IF DOMAIN policy = {}
       THEN /\ sec_call' = Call("__init__", "", <<>>, "", "",
                                Raise("ValueError", "Allowed commands cannot be empty"))
            /\ UNCHANGED val_policy
       ELSE /\ sec_call' = Call("__init__", "", <<>>, "", "", Ok(TRUE))
            /\ val_policy' = Some(policy)
    /\ sec_again' = None
    /\ UNCHANGED fs_links
    /\ UNCHANGED <<execVars, streamVars, serverVars, loggerVars, historyVars, writerVars>>

SecSanitizeCommand(command) ==
    /\ sec_call.fn = ""
    /\ sec_call' = Call("sanitize_command", command, <<>>, "", "", sanitize_command(command))
    /\ sec_again' = None
    /\ UNCHANGED <<fs_links, val_policy>>
    /\ UNCHANGED <<execVars, streamVars, serverVars, loggerVars, historyVars, writerVars>>

SecSanitizePath(path) ==
    /\ sec_call.fn = ""
    /\ sec_call' = Call("sanitize_path", "", <<>>, path, "", sanitize_path(path))
    /\ sec_again' = None
    /\ UNCHANGED <<fs_links, val_policy>>
    /\ UNCHANGED <<execVars, streamVars, serverVars, loggerVars, historyVars, writerVars>>

SecSanitizeArguments(args) ==
    /\ sec_call.fn = ""
    /\ sec_call' = Call("sanitize_arguments", "", args, "", "", sanitize_arguments(args))
    /\ sec_again' = None
    /\ UNCHANGED <<fs_links, val_policy>>
    /\ UNCHANGED <<execVars, streamVars, serverVars, loggerVars, historyVars, writerVars>>

SecValidateCommand(command, args, path) ==
    /\ sec_call.fn = ""
    /\ val_policy # None
    /\ sec_call' = Call("validate_command", command, args, path, "",
                        validate_command(val_policy[1], command, args, path))
    /\ sec_again' = None
    /\ UNCHANGED <<fs_links, val_policy>>
    /\ UNCHANGED <<execVars, streamVars, serverVars, loggerVars, historyVars, writerVars>>

\* validate_command called once more with the arguments of the last call
SecValidateCommandAgain ==
    /\ sec_call.fn = "validate_command"
    /\ sec_again = None
    /\ sec_again' = Some([links |-> fs_links, path |-> sec_call.path, user |-> sec_call.user,
                          result |-> validate_command(val_policy[1], sec_call.command,
                                                      sec_call.args, sec_call.path)])
    /\ UNCHANGED <<fs_links, val_policy, sec_call>>
    /\ UNCHANGED <<execVars, streamVars, serverVars, loggerVars, historyVars, writerVars>>

SecIsPathAllowed(path, command) ==
    /\ sec_call.fn = ""
    /\ val_policy # None
    /\ sec_call' = Call("is_path_allowed", command, <<>>, path, "",
                        is_path_allowed(val_policy[1], path, command))
    /\ sec_again' = None
    /\ UNCHANGED <<fs_links, val_policy>>
    /\ UNCHANGED <<execVars, streamVars, serverVars, loggerVars, historyVars, writerVars>>

\* the risk level of the CommandConfirmation that require_confirmation builds
SecRequireConfirmation(command, args, path, usr) ==
    /\ sec_call.fn = ""
    /\ sec_call' = Call("require_confirmation", command, args, path, usr,
                        Ok(require_confirmation(command, args, path, usr).risk_level))
    /\ sec_again' = None
    /\ UNCHANGED <<fs_links, val_policy>>
    /\ UNCHANGED <<execVars, streamVars, serverVars, loggerVars, historyVars, writerVars>>

\* require_confirmation called once more for the same command and arguments,
\* with any path and any user
SecRequireConfirmationAgain(path, usr) ==
    /\ sec_call.fn = "require_confirmation"
    /\ sec_again = None
    /\ sec_again' = Some([links |-> fs_links, path |-> path, user |-> usr,
                          result |-> Ok(require_confirmation(sec_call.command, sec_call.args,
                                                             path, usr).risk_level)])
    /\ UNCHANGED <<fs_links, val_policy, sec_call>>
    /\ UNCHANGED <<execVars, streamVars, serverVars, loggerVars, historyVars, writerVars>>

\* MCPUserPrompts.request_confirmation: the risk level of the
\* ConfirmationResult, with the answer of Claude Desktop
SecRequestConfirmation(command, args, path, usr) ==
    /\ sec_call.fn = ""
    /\ \E answer \in ClaudeAnswers :
          sec_call' = Call("request_confirmation", command, args, path, usr,
                           Ok([confirmed |-> answer,
                               risk_level |-> _assess_risk(command, args, path)]))
    /\ sec_again' = None
    /\ UNCHANGED <<fs_links, val_policy>>
    /\ UNCHANGED <<execVars, streamVars, serverVars, loggerVars, historyVars, writerVars>>

\* CommandParser.parse
SecParse(command_string) ==
    /\ sec_call.fn = ""
    /\ val_policy # None
    /\ sec_call' = Call("parse", command_string, <<>>, "", "",
                        parse(val_policy[1], command_string))
    /\ sec_again' = None
    /\ UNCHANGED <<fs_links, val_policy>>
    /\ UNCHANGED <<execVars, streamVars, serverVars, loggerVars, historyVars, writerVars>>

\* the check_command_allowed tool: no audit event, no confirmation, no
\* subprocess
SecCheckCommandAllowed(command, args, path) ==
    /\ sec_call.fn = ""
    /\ val_policy # None
    /\ sec_call' = Call("check_command_allowed", command, args, path, "",
                        check_command_allowed(val_policy[1], command, args, path))
    /\ sec_again' = None
    /\ UNCHANGED <<fs_links, val_policy>>
    /\ UNCHANGED <<execVars, streamVars, serverVars, loggerVars, historyVars, writerVars>>

\* CommandServer.__init__: "allowed_commands or DEFAULT_ALLOWED_COMMANDS",
\* then the validator is constructed with it.  The call keeps the policy
\* supplied and the one handed to the validator.
CommandServer(supplied) ==
    /\ sec_call.fn = ""
    /\ val_policy = None
    /\ LET policy == IF supplied = None \/ DOMAIN supplied[1] = {} THEN DefaultPolicy
                                                                  ELSE supplied[1]
       IN  IF DOMAIN policy = {}
           THEN /\ sec_call' = Call("CommandServer", "", <<>>, "", "",
                                    Raise("ValueError", "Allowed commands cannot be empty"))
                /\ UNCHANGED val_policy
           ELSE /\ sec_call' = Call("CommandServer", "", <<>>, "", "",
                                    Ok([supplied |-> supplied, allowed_commands |-> policy]))
                /\ val_policy' = Some(policy)
    /\ sec_again' = None
    /\ UNCHANGED fs_links
    /\ UNCHANGED <<execVars, streamVars, serverVars, loggerVars, historyVars, writerVars>>

\* the caller is done with the outcome of a call
SecReturn ==
    /\ sec_call.fn # ""
    /\ sec_call' = NoCall
    /\ sec_again' = None
    /\ UNCHANGED <<fs_links, val_policy>>
    /\ UNCHANGED <<execVars, streamVars, serverVars, loggerVars, historyVars, writerVars>>

\* the environment creates or removes symbolic links
SecRelink(links) ==
    /\ links # fs_links
    /\ fs_links' = links
    /\ UNCHANGED <<val_policy, sec_call, sec_again>>
    /\ UNCHANGED <<execVars, streamVars, serverVars, loggerVars, historyVars, writerVars>>

SecInit ==
    /\ fs_links = NoLinks
    /\ val_policy = None
    /\ sec_call = NoCall
    /\ sec_again = None

SecNext ==
    \/ \E policy \in Policies : CommandValidator(policy)
    \/ \E command \in SecCommands : SecSanitizeCommand(command)
    \/ \E path \in SecPaths : SecSanitizePath(path)
    \/ \E args \in SecArgs : SecSanitizeArguments(args)
    \/ \E command \in SecCommands, args \in SecArgs, path \in SecPaths :
          SecValidateCommand(command, args, path)
    \/ SecValidateCommandAgain
    \/ \E path \in SecPaths, command \in SecCommands : SecIsPathAllowed(path, command)
    \/ \E command \in ConfirmCommands, args \in ConfirmArgs, path \in ConfirmPaths,
             usr \in SecUsers :
          SecRequireConfirmation(command, args, path, usr)
    \/ \E path \in ConfirmPaths, usr \in SecUsers : SecRequireConfirmationAgain(path, usr)
    \/ \E command \in ConfirmCommands, args \in ConfirmArgs, path \in ConfirmPaths,
             usr \in SecUsers :
          SecRequestConfirmation(command, args, path, usr)
    \/ \E command_string \in CommandStrings : SecParse(command_string)
    \/ \E command \in SecCommands, args \in ArgsInputs, path \in SecPaths :
          SecCheckCommandAllowed(command, args, path)
    \/ \E supplied \in ServerPolicies : CommandServer(supplied)
    \/ SecReturn
    \/ \E links \in LinkSets : SecRelink(links)

(***************************************************************************)
(* AuditLogger and the destination of its log.                             *)
(*   dir:  the directory part of log_path: "directory" (it exists),        *)
(*         "absent" (it can be created), "denied" (it cannot), "file" (a   *)
(*         regular file has that name), "none" (log_path has none)         *)
(*   file: log_path itself: "absent", "regular" (writable), "readonly",    *)
(*         "directory", "denied" (absent, in a directory that cannot be    *)
(*         written)                                                        *)
(*   content: the lines of the file                                        *)
(***************************************************************************)
Destination(dir, file, content) == [dir |-> dir, file |-> file, content |-> content]

\* a line written before the logger existed
OldLine == log_entry(0, "ls", <<"-l">>, "/home/user", "success", "old_user", None)

Destinations ==
    {Destination("directory", file, <<>>) : file \in {"absent", "directory", "denied"}}
    \cup {Destination("directory", file, content) :
             file \in {"regular", "readonly"}, content \in {<<>>, <<OldLine>>}}
    \cup {Destination(dir, "absent", <<>>) : dir \in {"absent", "denied", "file"}}
    \cup {Destination("none", file, <<>>) : file \in {"absent", "regular"}}

\* os.makedirs(os.path.dirname(log_path), exist_ok=True)
makedirs(fs) ==
    IF fs.dir = "none"
    THEN Raise("FileNotFoundError", "[Errno 2] No such file or directory: ''")
    ELSE IF fs.dir = "file" THEN Raise("FileExistsError", "[Errno 17] File exists")
    ELSE IF fs.dir = "denied" THEN Raise("PermissionError", "[Errno 13] Permission denied")
    ELSE Ok([fs EXCEPT !.dir = "directory"])

\* open(log_path, 'a'): the file is created when it is not there, and its
\* content is kept
open_append(fs) ==
    IF fs.dir \notin {"directory", "none"}
    THEN Raise("FileNotFoundError", "[Errno 2] No such file or directory")
    ELSE IF fs.file \in {"readonly", "denied"}
    THEN Raise("PermissionError", "[Errno 13] Permission denied")
    ELSE IF fs.file = "directory" THEN Raise("IsADirectoryError", "[Errno 21] Is a directory")
    ELSE Ok([fs EXCEPT !.file = "regular"])

\* a call, the destination before and after it, and what the caller gets
AlCall(fn, before, after, result) ==
    [fn |-> fn, before |-> before, after |-> after, result |-> result]

NoAlCall ==
    AlCall("", Destination("directory", "absent", <<>>),
           Destination("directory", "absent", <<>>), Ok(TRUE))

\* the file system before an AuditLogger is constructed
AlEnvironment(fs) ==
    /\ al_logger = None /\ al_call.fn = ""
    /\ fs # al_fs
    /\ al_fs' = fs
    /\ UNCHANGED <<al_logger, al_call>>
    /\ UNCHANGED <<execVars, streamVars, serverVars, securityVars, historyVars, writerVars>>

\* AuditLogger.__init__: makedirs outside the try block, open inside it
AuditLogger ==
    /\ al_logger = None /\ al_call.fn = ""
    /\ LET made == makedirs(al_fs)
           opened == open_append(made.value)
       IN  IF ~made.ok
           THEN /\ al_call' = AlCall("__init__", al_fs, al_fs, made)
                /\ UNCHANGED <<al_fs, al_logger>>
           ELSE IF ~opened.ok
           THEN /\ al_call' = AlCall("__init__", al_fs, made.value,
                                     Raise("PermissionError", "Cannot write to audit log"))
                /\ al_fs' = made.value
                /\ UNCHANGED al_logger
           ELSE /\ al_call' = AlCall("__init__", al_fs, opened.value, Ok(TRUE))
                /\ al_fs' = opened.value
                /\ al_logger' = Some("log_path")
    /\ UNCHANGED <<execVars, streamVars, serverVars, securityVars, historyVars, writerVars>>

\* what log_command_execution is called with
AuditStatuses == {"success", "failed"}

AuditMessages == {None, Some(""), Some("Command is not allowed")}

\* AuditLogger.log_command_execution: one line appended, or RuntimeError
log_command_execution(status, error_message) ==
    /\ al_logger # None
    /\ Len(al_fs.content) < MaxAuditLines
    /\ LET opened == open_append(al_fs)
       IN  IF opened.ok
           THEN /\ al_fs' = [opened.value EXCEPT !.content =
                                Append(@, log_entry(0, "ls", <<"-l">>, "/home/user", status,
                                                    user, error_message))]
                /\ al_call' = AlCall("log_command_execution", al_fs, al_fs', Ok(TRUE))
           ELSE /\ al_call' = AlCall("log_command_execution", al_fs, al_fs,
                                     Raise("RuntimeError", "Failed to write to audit log"))
                /\ UNCHANGED al_fs
    /\ UNCHANGED al_logger
    /\ UNCHANGED <<execVars, streamVars, serverVars, securityVars, historyVars, writerVars>>

\* the environment changes the mode of the log, or removes it, under the logger
AlChmod(file) ==
    /\ al_logger # None
    /\ al_fs.file \in {"regular", "readonly"}
    /\ file \in {"regular", "readonly", "absent"} \ {al_fs.file}
    /\ al_fs' = [al_fs EXCEPT !.file = file, !.content = IF file = "absent" THEN <<>> ELSE @]
    /\ UNCHANGED <<al_logger, al_call>>
    /\ UNCHANGED <<execVars, streamVars, serverVars, securityVars, historyVars, writerVars>>

AlInit ==
    /\ al_fs = Destination("directory", "absent", <<>>)
    /\ al_logger = None
    /\ al_call = NoAlCall

AlNext ==
    \/ \E fs \in Destinations : AlEnvironment(fs)
    \/ AuditLogger
    \/ \E status \in AuditStatuses, error_message \in AuditMessages :
          log_command_execution(status, error_message)
    \/ \E file \in {"regular", "readonly", "absent"} : AlChmod(file)

(***************************************************************************)
(* CommandRecord, CommandLogger and the history log.                       *)
(***************************************************************************)
CommandRecord(timestamp, command, args, path, usr, status, risk_level, duration, error) ==
    [timestamp |-> timestamp, command |-> command, args |-> args, path |-> path,
     user |-> usr, status |-> status, risk_level |-> risk_level,
     duration |-> duration, error |-> error]

\* the fields without a default, and all fields, of CommandRecord
RequiredFields == {"timestamp", "command", "args", "path", "user", "status", "risk_level"}

AllFields == RequiredFields \cup {"duration", "error"}

SENSITIVE_PARAMS == {"-p", "--password", "PASSWORD", "TOKEN", "KEY", "SECRET"}

\* the loop of _mask_sensitive_data over record.args
RECURSIVE mask_args(_, _, _)
mask_args(args, masked_args, skip_next) ==
    IF args = <<>> THEN masked_args
    ELSE IF skip_next
    THEN mask_args(Tail(args), Append(masked_args, "[MASKED]"), FALSE)
    ELSE IF Head(args) \in SENSITIVE_PARAMS
    THEN mask_args(Tail(args), Append(masked_args, Head(args)), TRUE)
    ELSE mask_args(Tail(args), Append(masked_args, Head(args)), FALSE)

\* a mask that loses the error text of the record
_mask_sensitive_data_ErrorDropped(record) ==
    CommandRecord(record.timestamp, record.command, mask_args(record.args, <<>>, FALSE),
                  record.path, record.user, record.status, record.risk_level,
                  record.duration, None)

\* CommandLogger._mask_sensitive_data: a new record, args masked
_mask_sensitive_data(record) ==
    CommandRecord(record.timestamp, record.command, mask_args(record.args, <<>>, FALSE),
                  record.path, record.user, record.status, record.risk_level,
                  record.duration, record.error)

\* datetime.isoformat and datetime.fromisoformat; a datetime is a number of
\* seconds, its ISO text is tagged
isoformat(timestamp) == <<"iso", timestamp>>

IsIsoFormat(text) == text[1] = "iso"

fromisoformat(text) == text[2]

\* json.dumps({**asdict(masked_record), "timestamp": ...isoformat()}) + "\n"
JsonLine(record) ==
    [kind |-> "json", entry |-> [record EXCEPT !.timestamp = isoformat(@)]]

\* lines that did not come from log_command: a blank line, text that is not
\* JSON, JSON objects that lack the timestamp, carry a timestamp that is no
\* ISO text, or lack a field of CommandRecord
BlankLine == [kind |-> "blank"]

TextLine == [kind |-> "text"]

NoTimestampLine == [kind |-> "json", entry |-> [command |-> "ls"]]

BadTimestampLine ==
    [kind |-> "json",
     entry |-> [CommandRecord(0, "ls", <<>>, "/home/user", "test_user", "success", "LOW",
                              None, None) EXCEPT !.timestamp = <<"yesterday", 0>>]]

NoUserLine ==
    [kind |-> "json",
     entry |-> [timestamp |-> isoformat(0), command |-> "ls", args |-> <<>>,
                path |-> "/home/user", status |-> "success", risk_level |-> "LOW"]]

ForeignLines == {BlankLine, TextLine, NoTimestampLine, BadTimestampLine, NoUserLine}

\* json.loads, fromisoformat and CommandRecord(**entry) on one non-blank line
parse_record(line) ==
    IF line.kind = "text" THEN Raise("JSONDecodeError", "Expecting value")
    ELSE IF "timestamp" \notin DOMAIN line.entry THEN Raise("KeyError", "'timestamp'")
    ELSE IF ~IsIsoFormat(line.entry.timestamp)
    THEN Raise("ValueError", "Invalid isoformat string")
    ELSE IF ~(RequiredFields \subseteq DOMAIN line.entry /\ DOMAIN line.entry \subseteq AllFields)
    THEN Raise("TypeError", "CommandRecord.__init__() got wrong arguments")
    ELSE Ok(CommandRecord(fromisoformat(line.entry.timestamp), line.entry.command,
                          line.entry.args, line.entry.path, line.entry.user,
                          line.entry.status, line.entry.risk_level,
                          IF "duration" \in DOMAIN line.entry THEN line.entry.duration
                                                            ELSE None,
                          IF "error" \in DOMAIN line.entry THEN line.entry.error ELSE None))

\* a loop that passes over the lines it cannot parse
RECURSIVE read_lines_MalformedSkipped(_, _, _)
read_lines_MalformedSkipped(lines, records, limit) ==
    IF lines = <<>> THEN Ok(records)
    ELSE LET line == Head(lines)
             parsed == parse_record(line)
             read == IF line.kind = "blank" \/ ~parsed.ok THEN records
                                                          ELSE Append(records, parsed.value)
         IN  IF Len(read) >= limit THEN Ok(read)
             ELSE read_lines_MalformedSkipped(Tail(lines), read, limit)

\* the loop of get_command_history over the lines of the file: the test of
\* the limit follows the handling of each line
RECURSIVE read_lines(_, _, _)
read_lines(lines, records, limit) ==
    IF lines = <<>> THEN Ok(records)
    ELSE LET line == Head(lines)
             parsed == parse_record(line)
             read == IF line.kind = "blank" THEN records
                                            ELSE Append(records, parsed.value)
         IN  IF line.kind # "blank" /\ ~parsed.ok THEN parsed
             ELSE IF Len(read) >= limit THEN Ok(read)
             ELSE read_lines(Tail(lines), read, limit)

\* argument lists and records that callers pass
HistTokens == {"-p", "KEY", "hunter2", "[MASKED]", "key"}

RECURSIVE ArgLists(_)
ArgLists(n) ==
    IF n = 0 THEN {<<>>}
    ELSE ArgLists(n - 1) \cup {Append(args, token) : args \in ArgLists(n - 1), token \in HistTokens}

HistRecords ==
    {CommandRecord(1, "mysql", args, "/home/user", "test_user", "failed", "MEDIUM",
                   Some(2), Some("Access denied")) : args \in ArgLists(MaxArgs)}

LoggedRecords ==
    {CommandRecord(1, "ls", <<"-l">>, "/test/path", "test_user", "success", "LOW",
                   Some(1), None),
     CommandRecord(2, "mysql", <<"-u", "root", "-p", "secret123">>, "/test/path",
                   "test_user", "failed", "MEDIUM", None, Some("Access denied"))}

Limits == 0 .. (MaxHistory + 1)

HistCall(fn, record, limit, result) ==
    [fn |-> fn, record |-> record, limit |-> limit, result |-> result]

NoRecord == CommandRecord(0, "", <<>>, "", "", "", "", None, None)

NoHistCall == HistCall("", NoRecord, 0, Ok(<<>>))

\* CommandLogger.log_command
log_command(record) ==
    /\ hist_call.fn = ""
    /\ Len(hist_log) < MaxHistory
    /\ hist_log' = Append(hist_log, JsonLine(_mask_sensitive_data(record)))
    /\ hist_exists' = TRUE
    /\ hist_logged' = Append(hist_logged, record)
    /\ hist_call' = HistCall("log_command", record, 0, Ok(<<>>))
    /\ UNCHANGED hist_again
    /\ UNCHANGED <<execVars, streamVars, serverVars, securityVars, loggerVars, writerVars>>

\* something else appends a line to the file
HistForeignLine(line) ==
    /\ hist_call.fn = ""
    /\ Len(hist_log) < MaxHistory
    /\ hist_log' = Append(hist_log, line)
    /\ hist_exists' = TRUE
    /\ UNCHANGED <<hist_logged, hist_call, hist_again>>
    /\ UNCHANGED <<execVars, streamVars, serverVars, securityVars, loggerVars, writerVars>>

\* CommandLogger.get_command_history
get_command_history(limit) ==
    /\ hist_call.fn = ""
    /\ hist_call' = HistCall("get_command_history", NoRecord, limit,
                             IF ~hist_exists THEN Ok(<<>>)
                                             ELSE read_lines(hist_log, <<>>, limit))
    /\ UNCHANGED <<hist_exists, hist_log, hist_logged, hist_again>>
    /\ UNCHANGED <<execVars, streamVars, serverVars, securityVars, loggerVars, writerVars>>

\* a call of _mask_sensitive_data, and a call of it on what it returned
HistMask(record) ==
    /\ hist_call.fn = ""
    /\ hist_call' = HistCall("_mask_sensitive_data", record, 0,
                             Ok(_mask_sensitive_data(record)))
    /\ UNCHANGED <<hist_exists, hist_log, hist_logged, hist_again>>
    /\ UNCHANGED <<execVars, streamVars, serverVars, securityVars, loggerVars, writerVars>>

HistMaskAgain ==
    /\ hist_call.fn = "_mask_sensitive_data"
    /\ hist_again = None
    /\ hist_again' = Some(_mask_sensitive_data(hist_call.result.value))
    /\ UNCHANGED <<hist_exists, hist_log, hist_logged, hist_call>>
    /\ UNCHANGED <<execVars, streamVars, serverVars, securityVars, loggerVars, writerVars>>

\* the caller is done with the outcome
HistReturn ==
    /\ hist_call.fn # ""
    /\ hist_call' = NoHistCall
    /\ hist_again' = None
    /\ UNCHANGED <<hist_exists, hist_log, hist_logged>>
    /\ UNCHANGED <<execVars, streamVars, serverVars, securityVars, loggerVars, writerVars>>

\* CommandLogger.__init__: the directory is there, the file is not
HistInit ==
    /\ hist_exists = FALSE
    /\ hist_log = <<>>
    /\ hist_logged = <<>>
    /\ hist_call = NoHistCall
    /\ hist_again = None

HistNext ==
    \/ \E record \in LoggedRecords : log_command(record)
    \/ \E line \in ForeignLines : HistForeignLine(line)
    \/ \E limit \in Limits : get_command_history(limit)
    \/ \E record \in HistRecords : HistMask(record)
    \/ HistMaskAgain
    \/ HistReturn

(***************************************************************************)
(* Concurrent calls of AuditLogger.log_command_execution and of            *)
(* CommandLogger.log_command: each opens the log in append mode, writes     *)
(* one line to its own file object and closes it.                          *)
(***************************************************************************)
NumCalls == 3

Calls == 1..NumCalls

Logs == {"audit", "history"}

\* what one write(2) puts into the file: the line of a call, or a part of it
Piece(c, part) == [call |-> c, part |-> part]

\* "with open(self.log_path, 'a') as f" and
\* "async with aiofiles.open(self.log_file, mode='a') as f": a file object
\* of the call, nothing is written or truncated
WrOpen(c, log) ==
    /\ wr_pc[c] = "idle"
    /\ wr_pc' = [wr_pc EXCEPT ![c] = "open"]
    /\ wr_log' = [wr_log EXCEPT ![c] = log]
    /\ UNCHANGED <<wr_buffer, wr_file>>
    /\ UNCHANGED <<execVars, streamVars, serverVars, securityVars, loggerVars, historyVars>>

\* a file object without a buffer: the text goes to the file as it comes
WrWrite_WriteThrough(c) ==
    /\ wr_pc[c] = "open"
    /\ wr_pc' = [wr_pc EXCEPT ![c] = "written"]
    /\ wr_file' = [wr_file EXCEPT ![wr_log[c]] = Append(@, Piece(c, "head"))]
    /\ wr_buffer' = [wr_buffer EXCEPT ![c] = <<"tail">>]
    /\ UNCHANGED wr_log
    /\ UNCHANGED <<execVars, streamVars, serverVars, securityVars, loggerVars, historyVars>>

\* f.write(json.dumps(log_entry) + "\n"): the line stays in the buffer of the
\* file object
WrWrite(c) ==
    /\ wr_pc[c] = "open"
    /\ wr_pc' = [wr_pc EXCEPT ![c] = "written"]
    /\ wr_buffer' = [wr_buffer EXCEPT ![c] = <<"line">>]
    /\ UNCHANGED <<wr_log, wr_file>>
    /\ UNCHANGED <<execVars, streamVars, serverVars, securityVars, loggerVars, historyVars>>

\* the end of the with block: close flushes the buffer with one write, which
\* O_APPEND puts at the end of the file, and the call returns
WrClose(c) ==
    /\ wr_pc[c] = "written"
    /\ wr_pc' = [wr_pc EXCEPT ![c] = "returned"]
    /\ wr_file' = [wr_file EXCEPT ![wr_log[c]] = Append(@, Piece(c, wr_buffer[c][1]))]
    /\ wr_buffer' = [wr_buffer EXCEPT ![c] = <<>>]
    /\ UNCHANGED wr_log
    /\ UNCHANGED <<execVars, streamVars, serverVars, securityVars, loggerVars, historyVars>>

WrInit ==
    /\ wr_pc = [c \in Calls |-> "idle"]
    /\ wr_log = [c \in Calls |-> "audit"]
    /\ wr_buffer = [c \in Calls |-> <<>>]
    /\ wr_file = [log \in Logs |-> <<>>]

WrNext ==
    \/ \E c \in Calls, log \in Logs : WrOpen(c, log)
    \/ \E c \in Calls : WrWrite(c)
    \/ \E c \in Calls : WrClose(c)

Init == ExInit /\ StInit /\ SrvInit /\ SecInit /\ AlInit /\ HistInit /\ WrInit

SpecExecute == Init /\ [][ExNext]_vars

SpecStreaming == Init /\ [][StNext]_vars

SpecServer == Init /\ [][SrvNext]_vars

SpecSecurity == Init /\ [][SecNext]_vars

SpecAudit == Init /\ [][AlNext]_vars

SpecHistory == Init /\ [][HistNext]_vars

SpecWriters == Init /\ [][WrNext]_vars

\* execute_streaming with a scheduler that runs every enabled step of the
\* generator, a consumer that asks for every line, a timer that fires, and
\* children that exit, write and are reaped when they can
FairSpecStreaming ==
    /\ SpecStreaming
    /\ WF_vars(StCreated \/ StCreateFails)
    /\ WF_vars(StReadLine)
    /\ WF_vars(StConsumerNext)
    /\ WF_vars(StEOF)
    /\ WF_vars(StWaited)
    /\ SF_vars(StDeadline)
    /\ WF_vars(StGraceOver)
    /\ WF_vars(StChildWrites)
    /\ WF_vars(StChildClosesStdout)
    /\ WF_vars(StChildExits)
    /\ WF_vars(StChildReaped)

\* one call on a TerminalInterface, of execute or of execute_streaming: the
\* interface has no attribute, the calls share nothing
TerminalNext ==
    \/ st_pc = "idle" /\ ExNext
    \/ ex_pc = "idle" /\ StNext

SpecTerminal == Init /\ [][TerminalNext]_vars

\* the server with clients that send requests the policy allows, an event
\* loop that runs every step of an approved request that can run, and
\* children that exit when their command ends
SrvNextAllowed ==
    \/ \E r \in Requests : execute_command(r, "ls", <<"-l">>, "/home/user")
    \/ \E r \in Requests : SrvSanitize(r)
    \/ \E r \in Requests : SrvValidate(r)
    \/ \E r \in Requests : SrvConfirm(r)
    \/ \E r \in Requests : SrvExecute(r)
    \/ \E r \in Requests : SrvCreated(r)
    \/ \E r \in Requests : SrvCreateFails(r)
    \/ \E r \in Requests : SrvCommunicated(r)
    \/ \E r \in Requests : SrvReturns(r)
    \/ \E r \in Requests : SrvProgressFails(r)
    \/ \E r \in Requests : SrvCancelled(r)
    \/ \E r \in Requests : SrvChildExits(r)

\* the step that an approved request r can take; its position enables at
\* most one kind of step
SrvStep(r) ==
    \/ SrvExecute(r) \/ SrvCreated(r) \/ SrvCreateFails(r)
    \/ SrvCommunicated(r) \/ SrvReturns(r)

FairSpecServer ==
    /\ Init /\ [][SrvNextAllowed]_vars
    /\ \A r \in Requests : WF_vars(SrvStep(r)) /\ WF_vars(SrvChildExits(r))

(***************************************************************************)
(* Properties.                                                             *)
(***************************************************************************)
\* the audit events of request r
AuditEvents(r) == {i \in DOMAIN audit : audit[i].request = r}

\* C1: every execute_command that returned or raised has appended exactly one
\* audit event for its request (stated for the endings in which no append
\* failed and the request was not cancelled).
C1_ExactlyOneAuditEvent ==
    \A r \in Requests :
        srv_pc[r] = "done" /\ srv_outcome[r] \notin {"CancelledError", "RuntimeError"}
            => Cardinality(AuditEvents(r)) = 1

PipelineStages ==
    <<"sanitize_command", "sanitize_arguments", "sanitize_path", "validate_command",
      "require_confirmation", "create_subprocess_exec">>

\* C2: the stages of a request run in the order of the pipeline, no stage runs
\* after one that rejected, and a subprocess exists only when the five checks
\* before it all succeeded.
C2_PipelineOrder ==
    \A r \in Requests :
        LET t == srv_trace[r]
        IN  /\ Len(t) <= Len(PipelineStages)
            /\ \A i \in 1..Len(t) : t[i].stage = PipelineStages[i]
            /\ \A i \in 1..(Len(t) - 1) : t[i].ok
            /\ srv_child[r].state # "none"
                  => Len(t) = Len(PipelineStages) /\ \A i \in 1..Len(t) : t[i].ok

\* a request whose subprocess was created
C2_Witness == \E r \in Requests : srv_child[r].state = "running"

\* the child of an invocation is not left running: it has exited or the
\* forced kill was sent to it
NotLeftRunning(p) == p.state \in {"none", "exited", "reaped"} \/ p.sigkill

\* C3: when CancelledError leaves execute after the child was launched, the
\* child has been killed.
C3_KilledBeforeCancelPropagates ==
    ex_outcome.kind = "CancelledError" => NotLeftRunning(ex_proc)

\* C4: a cancelled execute_command request has a failed audit event.
C4_CancelledIsAudited ==
    \A r \in Requests :
        srv_outcome[r] = "CancelledError"
            => \E i \in AuditEvents(r) : audit[i].status = "failed"

\* C5 as stated: once the deadline fired, execute ends with
\* CommandTimeoutError and with nothing else.
C5_AlwaysTimeoutError ==
    ex_fired /\ ex_pc = "done" => ex_outcome.kind = "CommandTimeoutError"

\* C5 as amended: once the deadline fired, execute ends with
\* CommandTimeoutError, whatever the child and the signals do, unless the task
\* is cancelled in the grace sleep, in which case CancelledError leaves it.
C5_TimeoutErrorUnlessCancelled ==
    ex_fired /\ ex_pc = "done"
        => ex_outcome.kind \in {"CommandTimeoutError", "CancelledError"}

\* the deadline fired, the child exited with code 0 in the grace interval and
\* the timeout was reported
C5_Witness ==
    ex_fired /\ ex_outcome.kind = "CommandTimeoutError" /\ ex_proc.returncode = Some(0)

\* C6: for a child that never exits on its own and a finite timeout, when
\* execute has ended (other than by cancellation) it has failed and the child
\* is reaped.
C6_FailedAndReaped ==
    /\ ex_pc = "done"
    /\ ex_proc.state # "none"
    /\ ex_cmd.exits = "never"
    /\ ex_timeout # None
    /\ ex_outcome.kind # "CancelledError"
    => /\ ex_outcome.kind \notin {"none", "CommandResult"}
       /\ ex_proc.state = "reaped"

\* C7: when execute_streaming ends other than normally, its child is not left
\* running.
C7_StreamChildKilled ==
    st_pc = "done" /\ st_outcome.kind # "StopAsyncIteration" => NotLeftRunning(st_proc)

\* C8: a consumed execute_streaming with a finite timeout ends.
C8_StreamingTerminates ==
    [](st_pc # "idle" /\ st_timeout # None => <>(st_pc = "done"))

\* C9: a non-zero exit code without a deadline ends execute and
\* execute_streaming with a TerminalError that carries the code, and a
\* CommandResult is returned with code 0 only.
C9_NonZeroExitRaisesTerminalError ==
    [][/\ ExCommunicated /\ ex_proc.returncode # Some(0)
          => ex_outcome' = Ended("TerminalError", ex_proc.returncode)
       /\ StWaited /\ st_proc.returncode # Some(0)
          => st_outcome' = Ended("TerminalError", st_proc.returncode)
       /\ ex_outcome'.kind = "CommandResult" => ex_outcome'.returncode = Some(0)]_vars

\* C10: when input data was supplied, execute waits for the output of the
\* child only with the data written to a stdin pipe that is closed.
C10_StdinClosedBeforeWait ==
    ex_input # None /\ ex_pc = "communicate"
        => ex_proc.stdin = "closed" /\ ex_proc.written

(***************************************************************************)
(* The validator, the sanitizer and the confirmation handler.              *)
(***************************************************************************)
\* the call the caller holds is a call of fn on a validator with a policy
Called(fn) == sec_call.fn = fn

Policy == val_policy[1]

\* C11: for a command that is not a key of the policy, validate_command
\* raises ValidationError whatever the arguments and the path are, and
\* is_path_allowed returns False whatever the path is.
C11_UnknownCommandDenied ==
    /\ Called("validate_command") /\ sec_call.command \notin DOMAIN Policy
       => ~sec_call.result.ok /\ sec_call.result.error = "ValidationError"
    /\ Called("is_path_allowed") /\ sec_call.command \notin DOMAIN Policy
       => sec_call.result = Ok(FALSE)

\* rm is in no policy; -l and /home/user are allowed for ls
C11_Witness ==
    /\ Called("validate_command")
    /\ Policy = TestPolicy
    /\ sec_call.command = "rm" /\ sec_call.args = <<"-l">> /\ sec_call.path = "/home/user"
    /\ sec_call.result = Raise("ValidationError", "Command is not allowed")

\* the allowed-argument set of a command of the policy
AllowedArguments(command) ==
    {Policy[command].args[j] : j \in 1..Len(Policy[command].args)}

\* C12: validate_command succeeds only if every argument is in the
\* allowed-argument set of the command; one argument outside the set makes
\* the call raise ValidationError whatever the other arguments and the path.
C12_EveryArgumentAllowed ==
    Called("validate_command") =>
        /\ sec_call.result.ok =>
              /\ sec_call.command \in DOMAIN Policy
              /\ \A i \in 1..Len(sec_call.args) :
                    sec_call.args[i] \in AllowedArguments(sec_call.command)
        /\ /\ sec_call.command \in DOMAIN Policy
           /\ \E i \in 1..Len(sec_call.args) :
                 sec_call.args[i] \notin AllowedArguments(sec_call.command)
           => ~sec_call.result.ok /\ sec_call.result.error = "ValidationError"

\* -l is allowed for ls and -r is not; the path is allowed
C12_Witness ==
    /\ Called("validate_command")
    /\ Policy = TestPolicy
    /\ sec_call.command = "ls" /\ sec_call.args = <<"-l", "-r">>
    /\ sec_call.path = "/home/user"
    /\ sec_call.result = Raise("ValidationError", "Argument is not allowed for command")

\* the canonical path p is the prefix q or lies below it: after q comes a "/"
Descends(p, q) ==
    \/ p = q
    \/ q = "/" /\ IsAbsolute(p)
    \/ Len(p) > Len(q) /\ SubSeq(p, 1, Len(q) + 1) = q \o "/"

AllowedCommandAndArguments ==
    /\ sec_call.command \in DOMAIN Policy
    /\ \A i \in 1..Len(sec_call.args) : sec_call.args[i] \in AllowedArguments(sec_call.command)

\* the path is a relative allowed prefix of the command, or lies below one,
\* as given or in the canonical form that sanitize_path returns
UnderRelativePrefix(path, command) ==
    \E i \in 1..Len(Policy[command].paths) :
        /\ ~IsAbsolute(Policy[command].paths[i])
        /\ Descends(Resolve(path), Resolve(Policy[command].paths[i]))

\* C14: with a relative allowed prefix in the policy ("./project", "./"),
\* validate_command accepts the request for that relative path, or a path
\* below it, when the command and the arguments are allowed.
C14_RelativePrefixAccepted ==
    /\ Called("validate_command")
    /\ sec_call.links = fs_links
    /\ AllowedCommandAndArguments
    /\ ~HasNul(sec_call.path)
    /\ UnderRelativePrefix(sec_call.path, sec_call.command)
    => sec_call.result = Ok(TRUE)

C16_ProbeNeverRaises ==
    Called("is_path_allowed") /\ sec_call.links = fs_links =>
        /\ sec_call.result.ok
        /\ sec_call.command \notin DOMAIN Policy => sec_call.result = Ok(FALSE)
        /\ sec_call.command \in DOMAIN Policy =>
              (sec_call.result = Ok(TRUE)
                 <=> validate_command(Policy, sec_call.command, <<>>, sec_call.path) = Ok(TRUE))

\* s contains one of ; & | ` > < $( ${
HasMetacharacter(s) ==
    \E i \in 1..Len(s) :
        \/ CharAt(s, i) \in {";", "&", "|", GraveAccent, ">", "<"}
        \/ i < Len(s) /\ CharAt(s, i) = "$" /\ CharAt(s, i + 1) \in {"(", "{"}

\* C17: a raw string that contains a shell metacharacter sequence makes
\* sanitize_command, sanitize_path and sanitize_arguments fail, for
\* sanitize_path also when canonicalization removes the segment it sits in.
C17_MetacharacterAlwaysFails ==
    /\ Called("sanitize_command") /\ HasMetacharacter(sec_call.command)
       => ~sec_call.result.ok
    /\ Called("sanitize_path") /\ HasMetacharacter(sec_call.path)
       => ~sec_call.result.ok
    /\ Called("sanitize_arguments")
       /\ (\E i \in 1..Len(sec_call.args) : HasMetacharacter(sec_call.args[i]))
       => ~sec_call.result.ok

\* s is a non-empty sequence of letters, digits, "_" and "-"
WholeToken(s) ==
    Len(s) > 0 /\ \A i \in 1..Len(s) : InClass(CharAt(s, i), Alnum) \/ CharAt(s, i) \in {"_", "-"}

\* C18: sanitize_command returns its input unchanged exactly when the whole
\* string is a non-empty sequence of letters, digits, "_" and "-", and raises
\* ValueError for every other string; validate_command rejects a command that
\* is not such a token as one with invalid characters.
C18_WholeTokenRule ==
    /\ Called("sanitize_command") =>
          IF WholeToken(sec_call.command)
          THEN sec_call.result = Ok(sec_call.command)
          ELSE ~sec_call.result.ok /\ sec_call.result.error = "ValueError"
    /\ Called("validate_command") /\ ~WholeToken(sec_call.command) =>
          sec_call.result = Raise("ValidationError", "Command contains invalid characters")

\* a relative path that leaves the working directory through ".."
ClimbsOut(path) ==
    /\ ~IsAbsolute(path)
    /\ \E i \in 1..Len(Components(path)) : Components(path)[i] = ".."
    /\ ~Descends(Resolve(path), Cwd)

\* C19: sanitize_path rejects a relative path that climbs out of the working
\* directory through ".." with "Path contains disallowed characters", and
\* returns a canonical absolute path unchanged.
C19_TraversalRejected ==
    Called("sanitize_path") /\ sec_call.links = fs_links =>
        /\ ClimbsOut(sec_call.path) =>
              sec_call.result
                  = Raise("ValueError", "Invalid path: Path contains disallowed characters")
        /\ /\ IsAbsolute(sec_call.path) /\ ~HasNul(sec_call.path)
           /\ ~HasMetacharacter(sec_call.path)
           /\ Resolve(sec_call.path) = sec_call.path
           => sec_call.result = Ok(sec_call.path)

\* the arguments hold a force flag
ForceFlag(args) == \E i \in 1..Len(args) : args[i] \in {"-f", "--force"}

ReportedRisk ==
    IF Called("request_confirmation") THEN sec_call.result.value.risk_level
    ELSE sec_call.result.value

\* C21: whatever the command, read-only commands included, arguments that
\* hold the token -f or the token --force are classified HIGH.
C21_ForceFlagIsHigh ==
    /\ Called("require_confirmation") \/ Called("request_confirmation")
    /\ ForceFlag(sec_call.args)
    => ReportedRisk = "HIGH"

\* C22: request_confirmation reports HIGH for sudo with the arguments
\* rm -rf /, and for rm with the arguments -rf and a path.
C22_WrappedDestructiveIsHigh ==
    /\ Called("request_confirmation")
    /\ \/ sec_call.command = "sudo" /\ sec_call.args = <<"rm", "-rf", "/">>
       \/ sec_call.command = "rm" /\ sec_call.args = <<"-rf", "/test/path">>
    => ReportedRisk = "HIGH"

\* the approval callback was asked about request r and answered false
Denied(r) == Len(srv_prompts[r]) = 1 /\ srv_prompts[r][1].answer = "no"

\* the failed audit events of request r that say it was not confirmed
NotConfirmedEvents(r) ==
    {i \in AuditEvents(r) :
        /\ audit[i].status = "failed"
        /\ audit[i].error = Some("Command execution not confirmed by user")}

\* the callback is called once for a request that reached the confirmation
\* stage and not at all for another, with the sanitized command, arguments
\* and path, the user and the risk level
AskedOnceWithSnapshot(r) ==
    /\ Len(srv_prompts[r]) =
          Cardinality({i \in 1..Len(srv_trace[r]) :
                          srv_trace[r][i].stage = "require_confirmation"})
    /\ Len(srv_prompts[r]) <= 1
    /\ \A i \in 1..Len(srv_prompts[r]) :
          LET c == srv_prompts[r][i].confirmation
          IN  /\ c.command = srv_req[r].command
              /\ c.args = srv_req[r].args
              /\ c.path = srv_req[r].path
              /\ ~HasDangerousPattern(c.command) /\ c.path \in {"/home/user"}
              /\ c.user = "default_user"
              /\ c.risk_level = "LOW"

\* C23 as stated: after the callback answered false, no subprocess exists,
\* the error is not the one of an authorization failure, and a failed audit
\* event says that the command was not confirmed; the callback is called
\* once per request that reached the confirmation stage, with the snapshot.
C23_DenialAuditedAlways ==
    \A r \in Requests :
        /\ AskedOnceWithSnapshot(r)
        /\ Denied(r) =>
              /\ srv_child[r].state = "none"
              /\ srv_outcome[r] \notin {"ValidationError", "returned", "none"}
              /\ NotConfirmedEvents(r) # {}

\* C23: the same, where the audit event is there when its append succeeded:
\* the request ends with PermissionError and one such event, or, when the
\* append failed, with RuntimeError and no event.
C23_DenialDistinctAndAudited ==
    \A r \in Requests :
        /\ AskedOnceWithSnapshot(r)
        /\ Denied(r) =>
              /\ srv_child[r].state = "none"
              /\ srv_pc[r] = "done"
              /\ \/ /\ srv_outcome[r] = "PermissionError"
                    /\ Cardinality(NotConfirmedEvents(r)) = 1
                    /\ AuditEvents(r) = NotConfirmedEvents(r)
                 \/ /\ srv_outcome[r] = "RuntimeError"
                    /\ AuditEvents(r) = {}

\* a denied request, its snapshot and its audit event
C23_Witness ==
    \E r \in Requests :
        /\ Denied(r)
        /\ srv_prompts[r][1].confirmation
              = [command |-> "ls", args |-> <<"-l">>, path |-> "/home/user",
                 user |-> "default_user", risk_level |-> "LOW"]
        /\ srv_outcome[r] = "PermissionError"
        /\ Cardinality(NotConfirmedEvents(r)) = 1

\* the success events of request r
SuccessEvents(r) == {i \in AuditEvents(r) : audit[i].status = "success"}

\* C24: execute_command goes past the append of the success event only with
\* that event in the log, and returns the output of the command only then:
\* a failed append ends the request with an error.
C24_NoSuccessWithoutAuditEvent ==
    \A r \in Requests :
        /\ srv_pc[r] = "progress100" \/ srv_outcome[r] = "returned"
              => Cardinality(SuccessEvents(r)) = 1
        /\ srv_pc[r] = "done" /\ srv_child[r].state # "none" /\ AuditEvents(r) = {}
              => srv_outcome[r] \in {"RuntimeError", "CancelledError"}

\* the append of the success event failed, and so did the append of the
\* failure: the request ends with RuntimeError and nothing in the log
C24_Witness ==
    \E r \in Requests :
        /\ srv_pc[r] = "done"
        /\ srv_child[r].state = "exited" /\ srv_child[r].returncode = Some(0)
        /\ srv_child[r].cmd.utf8
        /\ AuditEvents(r) = {}
        /\ srv_outcome[r] = "RuntimeError"

\* C25: an audit record written by execute_command has the status success or
\* failed, and carries an error exactly when it is a failure.
C25_ErrorExactlyOnFailure ==
    \A i \in DOMAIN audit :
        /\ audit[i].status \in {"success", "failed"}
        /\ audit[i].status = "failed" <=> audit[i].error # None


\* open(log_path, 'a') cannot succeed at this destination, whether or not
\* the directory of the log is created first
CannotBeOpened(fs) ==
    \/ fs.dir \in {"denied", "file"}
    \/ fs.file \in {"readonly", "directory", "denied"}

\* C26: constructing an AuditLogger whose destination cannot be opened for
\* appending fails with PermissionError, every logger that exists had its
\* log opened for appending, and a construction that succeeds leaves the
\* content of the log as it was.
C26_UnopenableFailsWithPermissionError ==
    al_call.fn = "__init__" =>
        /\ CannotBeOpened(al_call.before) =>
              /\ ~al_call.result.ok
              /\ al_call.result.error = "PermissionError"
        /\ al_call.result.ok =>
              /\ ~CannotBeOpened(al_call.before)
              /\ al_call.after.file = "regular"
              /\ al_call.after.content = al_call.before.content


\* the argument list a call was given and the one it stored or returned
GivenArgs == hist_call.record.args

StoredArgs ==
    IF hist_call.fn = "log_command" THEN hist_log[Len(hist_log)].entry.args
                                    ELSE hist_call.result.value.args

\* C27: the persisted argument list has the length of the input; every
\* sensitive flag is kept at its position, the token that directly follows
\* a sensitive flag is stored as "[MASKED]", every other token is unchanged.
C27_FlagsKeptValuesMasked ==
    hist_call.fn \in {"log_command", "_mask_sensitive_data"} =>
        /\ Len(StoredArgs) = Len(GivenArgs)
        /\ \A i \in DOMAIN GivenArgs :
              StoredArgs[i] =
                  IF GivenArgs[i] \in SENSITIVE_PARAMS THEN GivenArgs[i]
                  ELSE IF i > 1 /\ GivenArgs[i - 1] \in SENSITIVE_PARAMS THEN "[MASKED]"
                  ELSE GivenArgs[i]

\* C28: masking what masking returned gives the same record, and masking
\* changes no field but args.
C28_MaskingIdempotent ==
    hist_call.fn = "_mask_sensitive_data" =>
        /\ \A field \in AllFields \ {"args"} :
              hist_call.result.value[field] = hist_call.record[field]
        /\ hist_again # None => hist_again[1] = hist_call.result.value

\* C28 witness: a list with consecutive sensitive flags, a sensitive flag as
\* last token and a token already masked went through masking twice.
C28_Witness ==
    /\ hist_call.fn = "_mask_sensitive_data"
    /\ hist_again # None
    /\ Len(GivenArgs) = 3
    /\ GivenArgs[1] = "[MASKED]"
    /\ GivenArgs[2] \in SENSITIVE_PARAMS
    /\ GivenArgs[3] \in SENSITIVE_PARAMS
    /\ StoredArgs # GivenArgs
    /\ hist_call.record.error # None

\* the log holds what log_command wrote and nothing else
OnlyLogged == Len(hist_logged) = Len(hist_log)

Min(a, b) == IF a < b THEN a ELSE b

\* C29: after n calls of log_command, get_command_history(limit) returns the
\* masked forms of the first min(limit, n) records logged, in the order of
\* the calls, and never more than limit records.
C29_FirstLimitRecords ==
    hist_call.fn = "get_command_history" /\ OnlyLogged =>
        /\ hist_call.result.ok
        /\ hist_call.result.value =
              [i \in 1 .. Min(hist_call.limit, Len(hist_logged)) |->
                  _mask_sensitive_data(hist_logged[i])]

\* a line that is not blank and is not the line of a record
WellFormed(line) == \E record \in LoggedRecords : line = JsonLine(_mask_sensitive_data(record))

Malformed(line) == line.kind # "blank" /\ ~WellFormed(line)

\* the number of lines that are not blank before line m of the log
RecordsBefore(m) == Cardinality({j \in 1 .. (m - 1) : hist_log[j].kind # "blank"})

DeserializationErrors == {"JSONDecodeError", "KeyError", "ValueError", "TypeError"}

\* C30: without a history log the call returns the empty list; a malformed
\* line that is met before limit records were read makes the call raise a
\* deserialization error, and a call that returns a list has passed over no
\* malformed line to collect it.
C30_MissingLogEmptyMalformedRaises ==
    hist_call.fn = "get_command_history" =>
        /\ ~hist_exists => hist_call.result = Ok(<<>>)
        /\ \A m \in DOMAIN hist_log :
              Malformed(hist_log[m]) =>
                  /\ RecordsBefore(m) < hist_call.limit =>
                        /\ ~hist_call.result.ok
                        /\ hist_call.result.error \in DeserializationErrors
                  /\ hist_call.result.ok => RecordsBefore(m) >= Len(hist_call.result.value)
        /\ ~hist_call.result.ok =>
              \E m \in DOMAIN hist_log : Malformed(hist_log[m])

\* C30 witness: a read met a malformed line after a record and a blank line
\* and raised.
C30_Witness ==
    /\ hist_call.fn = "get_command_history"
    /\ Len(hist_log) = 3
    /\ WellFormed(hist_log[1])
    /\ hist_log[2].kind = "blank"
    /\ Malformed(hist_log[3])
    /\ hist_call.limit = 2
    /\ ~hist_call.result.ok

\* the request ran its command to the end: the child exited and the call
\* returned its output or raised the error of _execute_command_async
Ran(r) ==
    /\ srv_pc[r] = "done"
    /\ srv_outcome[r] \in {"returned", "CalledProcessError", "UnicodeDecodeError"}

\* the audit events of request r carry its command, arguments and path
OwnEvents(r) ==
    \A i \in DOMAIN audit :
        audit[i].request = r =>
            /\ audit[i].command = srv_req[r].command
            /\ audit[i].arguments = srv_req[r].args
            /\ audit[i].path = srv_req[r].path

\* C31: when the concurrent requests have all run their commands, each got
\* the stdout (on failure the exit code, stdout and stderr) of its own child,
\* and the audit log holds one event per request, each with the command,
\* arguments and path of its request.
C31_OwnResultOneEventEach ==
    (\A r \in Requests : Ran(r)) =>
        /\ \A r \in Requests :
              /\ srv_result[r] # None
              /\ srv_outcome[r] = "returned" =>
                    /\ srv_result[r][1].ok
                    /\ srv_result[r][1].value = <<"stdout of the child of", r>>
                    /\ srv_child[r].returncode = Some(0)
              /\ srv_outcome[r] = "CalledProcessError" =>
                    /\ srv_result[r][1].error = "CalledProcessError"
                    /\ srv_result[r][1].returncode = srv_child[r].returncode
                    /\ srv_result[r][1].output = <<"stdout of the child of", r>>
                    /\ srv_result[r][1].stderr = <<"stderr of the child of", r>>
              /\ Cardinality({i \in DOMAIN audit : audit[i].request = r}) = 1
              /\ OwnEvents(r)
        /\ Len(audit) = NumRequests

\* C31 witness: two requests ran concurrently, the second finished first and
\* failed, the first returned.
C31_Witness ==
    /\ \A r \in Requests : Ran(r)
    /\ NumRequests >= 2
    /\ srv_outcome[1] = "returned"
    /\ srv_outcome[2] = "CalledProcessError"
    /\ audit[1].request = 2
    /\ audit[2].request = 1

\* request r launched, or tried to launch, its command
ExecutionAttempted(r) ==
    \E i \in DOMAIN srv_trace[r] : srv_trace[r][i].stage = "create_subprocess_exec"

\* the history log holds a record of request r, with its arguments masked
HistoryRecordOf(r) ==
    \E i \in DOMAIN hist_log :
        /\ hist_log[i].kind = "json"
        /\ hist_log[i].entry.command = srv_req[r].command
        /\ hist_log[i].entry.args = mask_args(srv_req[r].args, <<>>, FALSE)
        /\ hist_log[i].entry.path = srv_req[r].path
        /\ hist_log[i].entry.risk_level =
              _assess_risk(srv_req[r].command, srv_req[r].args, srv_req[r].path)

\* C37: a request that ended after its command was launched has a history
\* record, beside its audit event.
C37_HistoryRecordAppended ==
    \A r \in Requests :
        srv_pc[r] = "done" /\ ExecutionAttempted(r) => HistoryRecordOf(r)

\* request r was approved: the callback said yes
Approved(r) ==
    \E i \in DOMAIN srv_trace[r] :
        srv_trace[r][i] = Stage("require_confirmation", TRUE)

\* C40: every approved request ends, also when the child never exits, and
\* with an audit event written unless the request was cancelled or the append
\* to the audit log failed.
C40_ApprovedRequestEnds ==
    \A r \in Requests :
        Approved(r) ~>
            /\ srv_pc[r] = "done"
            /\ srv_outcome[r] \notin {"CancelledError", "RuntimeError"} => AuditEvents(r) # {}

(***************************************************************************)
(* CommandParser.parse, check_command_allowed, construction of the server. *)
(***************************************************************************)
\* the tokens of the command line the parser was called with
Tokens == shlex_split(sec_call.command).value

\* the command line is empty, does not split (an open quote, a backslash
\* with nothing behind it), or has fewer than two tokens
Unparseable ==
    \/ sec_call.command = ""
    \/ ~shlex_split(sec_call.command).ok
    \/ Len(Tokens) < 2

QuotedCopy == "copy -r \"/home/user/My Documents\" /home/backup"

\* C34: under a policy that allows copy with -r under /home, the command line
\* copy -r "/home/user/My Documents" /home/backup parses to the arguments
\* [-r] and the path /home/user/My Documents.
C34_QuotedPathIsThePath ==
    /\ Called("parse")
    /\ sec_call.command = QuotedCopy
    /\ Policy = ParserPolicy
    => /\ sec_call.result.ok
       /\ sec_call.result.value.args = <<"-r">>
       /\ sec_call.result.value.path = "/home/user/My Documents"

\* the request passes sanitize_command, sanitize_arguments, sanitize_path and
\* validate_command, the stages execute_command runs before the confirmation
PassesStages(policy, command, args, path) ==
    /\ sanitize_command(command).ok
    /\ sanitize_arguments(args).ok
    /\ sanitize_path(path).ok
    /\ validate_command(policy, sanitize_command(command).value,
                        sanitize_arguments(args).value, sanitize_path(path).value).ok

\* the answer of check_command_allowed is a boolean, True for the requests
\* that pass the stages
ChecksAsExecuteWould ==
    /\ sec_call.result.ok
    /\ sec_call.result.value = PassesStages(Policy, sec_call.command, sec_call.args,
                                            sec_call.path)

\* C35: check_command_allowed returns True exactly for the requests that pass
\* the sanitization and authorization stages of execute_command, returns
\* False without raising for the others, and appends no audit event, asks
\* for no confirmation and creates no subprocess.
C35_CheckDecidesWithoutEffect ==
    Called("check_command_allowed") /\ sec_call.links = fs_links =>
        /\ ChecksAsExecuteWould
        /\ audit = <<>>
        /\ \A r \in Requests : srv_prompts[r] = <<>> /\ srv_child[r].state = "none"

\* a request the sanitizer rejects is answered with False
C35_Witness ==
    /\ Called("check_command_allowed")
    /\ sec_call.command = "ls" /\ sec_call.args = <<"-l", "|">>
    /\ sec_call.path = "/home/user"
    /\ ~sanitize_arguments(sec_call.args).ok
    /\ sec_call.result.ok /\ sec_call.result.value = FALSE

\* C36: a server is not constructed with an empty policy, the policy of the
\* validator is never empty and is the policy supplied at construction.
C36_SuppliedPolicyIsThePolicy ==
    /\ val_policy # None => DOMAIN Policy # {}
    /\ Called("CommandServer") /\ sec_call.result.ok =>
          \/ sec_call.result.value.supplied = None
          \/ /\ DOMAIN sec_call.result.value.supplied[1] # {}
             /\ sec_call.result.value.allowed_commands = sec_call.result.value.supplied[1]

(***************************************************************************)
(* The signals after the deadline.                                         *)
(***************************************************************************)
\* the step delivers the forced kill to the child p (q after the step)
KillDelivered(p, q) == q.sigkill /\ ~p.sigkill

GeneratorEnds ==
    /\ st_pc \in {"readline", "wait"}
    /\ st_pc' = "done"
    /\ st_outcome'.kind # "CancelledError"

\* C39: for a child that writes n lines of text and has exited with code 0,
\* no deadline having fired, the fully consumed generator ends normally,
\* without raising, when every line was read.
C39_LinesThenNormalEnd ==
    [][/\ GeneratorEnds
       /\ st_cmd.lines # Forever /\ st_cmd.utf8
       /\ st_proc.exitcode = Some(0)
       /\ ~st_fired'
       => /\ st_outcome'.kind = "StopAsyncIteration"
          /\ st_stdout'.towrite = 0 /\ st_stdout'.buffered = 0
      ]_vars

(***************************************************************************)
(* Concurrent writers of the logs.                                         *)
(***************************************************************************)
\* the file q is the file p with pieces added at its end
Extends(q, p) == Len(p) <= Len(q) /\ SubSeq(q, 1, Len(p)) = p

\* what is in the log is whole lines, one per call at most
WholeLines(file) ==
    /\ \A i \in 1..Len(file) : file[i].part = "line"
    /\ \A i, j \in 1..Len(file) : file[i].call = file[j].call => i = j

\* the line of a call that returned is in its log
LineOfReturnedCallWritten ==
    \A c \in Calls : wr_pc[c] = "returned" =>
        \E i \in 1..Len(wr_file[wr_log[c]]) : wr_file[wr_log[c]][i] = Piece(c, "line")

\* C32: with concurrent writers, every line of the audit log and of the
\* history log is the whole line of one write call, a call returns when its
\* line is in the log, and no step rewrites or removes what was appended.
C32_WholeLinesAppendOnly ==
    [][/\ \A log \in Logs : WholeLines(wr_file'[log]) /\ Extends(wr_file'[log], wr_file[log])
       /\ LineOfReturnedCallWritten'
      ]_vars

\* three calls on the history log: the second and the first have returned,
\* in that order, with their lines in the log, while the third holds its line
\* in the buffer of its file object
C32_Witness ==
    /\ wr_pc[1] = "returned" /\ wr_pc[2] = "returned" /\ wr_pc[3] = "written"
    /\ wr_log[1] = "history" /\ wr_log[2] = "history" /\ wr_log[3] = "history"
    /\ wr_file["history"] = <<Piece(2, "line"), Piece(1, "line")>>

====
